---------------------------- MODULE Spec2Model ----------------------------
(***************************************************************************)
(* A model of the dialogue core of apps/backend/backend/agent.py: the      *)
(* Agent's per-conversation state (session, pending disambiguation,        *)
(* history), the fast-path router with its team-scoped handlers, the team  *)
(* resolver, and the LLM tool-call loop of Agent.run.                      *)
(*                                                                         *)
(* Text is modelled word by word.  A text is a sequence of display words;  *)
(* normalising it yields a sequence of items separated by single spaces,   *)
(* where an empty item "" stands for the extra space that a punctuation    *)
(* character leaves behind.  Character-level facts about the words of the  *)
(* vocabulary (lower-casing, substrings, lengths) are given by tables.     *)
(***************************************************************************)
EXTENDS Integers, Sequences, FiniteSets, TLC

(***************************************************************************)
(* Bounds of the model.                                                    *)
(***************************************************************************)
\* Number of user turns (calls of Agent.run) in one conversation.
MaxTurns == 2
\* The max_steps argument of Agent.run (its default in the source is 6).
max_steps == 2

(***************************************************************************)
(* Optional values: Python's None is the empty tuple, a value v is <<v>>.  *)
(***************************************************************************)
None == <<>>
Some(v) == <<v>>
IsNone(o) == o = <<>>
Val(o) == o[1]
\* Python truthiness of an optional integer (None and 0 are falsy).
Truthy(o) == o # <<>> /\ o[1] # 0
\* `a if a is not None else b`.
OrNone(a, b) == IF a # <<>> THEN a ELSE b
\* The first element of a list as an optional value.
First(s) == IF s = <<>> THEN <<>> ELSE <<s[1]>>
\* The first element of a list, or d when the list is empty.
FirstOr(s, d) == IF s = <<>> THEN d ELSE s[1]

Range(s) == {s[i] : i \in 1..Len(s)}

RECURSIVE Flatten(_)
Flatten(ss) == IF ss = <<>> THEN <<>> ELSE Head(ss) \o Flatten(Tail(ss))

(***************************************************************************)
(* Character-level tables for the vocabulary.                              *)
(***************************************************************************)
\* str.lower() of a display word.
Lower(w) ==
    CASE w = "BG" -> "bg"
      [] w = "GT" -> "gt"
      [] w = "KO" -> "ko"
      [] w = "Boot" -> "boot"
      [] w = "Gang" -> "gang"
      [] w = "Big" -> "big"
      [] w = "Guns" -> "guns"
      [] w = "Glock" -> "glock"
      [] w = "Tua" -> "tua"
      [] w = "Boot-Gang" -> "boot-gang"
      [] OTHER -> w

\* re.sub(r"[^a-z0-9 ]+", " ", w.lower()) of one display word, as items.
NormWord(w) ==
    CASE w = "Boot-Gang" -> <<"boot", "gang">>
      [] w = "Tua," -> <<"tua", "">>
      [] w = "2." -> <<"2", "">>
      [] w = "???" -> <<"">>
      [] OTHER -> <<Lower(w)>>

\* len() of a normalised item.
ItemLen(it) ==
    CASE it = "" -> 0
      [] it \in {"1", "2", "3"} -> 1
      [] it \in {"bg", "gt", "ko"} -> 2
      [] it \in {"big", "tua", "for", "zzz"} -> 3
      [] it \in {"boot", "gang", "guns", "recs"} -> 4
      [] it \in {"glock", "draft", "picks", "bench", "hello"} -> 5
      [] OTHER -> 6

\* str.isdigit() and int() of a normalised item.
IsDigitItem(it) == it \in {"1", "2", "3"}
IntOf(it) == CASE it = "1" -> 1 [] it = "2" -> 2 [] it = "3" -> 3 [] OTHER -> 0

\* <<part, whole>>: part is a proper prefix / suffix / substring of whole.
ProperPrefix ==
    {<<"pick", "picks">>, <<"win", "wins">>, <<"waiver", "waivers">>,
     <<"gw", "gw27">>}
ProperSuffix == {<<"in", "win">>}
ProperInfix == ProperPrefix \cup ProperSuffix
IsPrefix(p, w) == p = "" \/ p = w \/ <<p, w>> \in ProperPrefix
IsSuffix(p, w) == p = "" \/ p = w \/ <<p, w>> \in ProperSuffix
IsSubstr(p, w) == p = "" \/ p = w \/ <<p, w>> \in ProperInfix

(***************************************************************************)
(* Text helpers.                                                           *)
(***************************************************************************)
\* text.lower(), word by word.
lower(text) == [i \in 1..Len(text) |-> Lower(text[i])]

\* Agent._normalize_text: the items of the normalised string.
_normalize_text(text) == Flatten([i \in 1..Len(text) |-> NormWord(text[i])])

RECURSIVE LStrip(_)
LStrip(items) ==
    IF items # <<>> /\ Head(items) = "" THEN LStrip(Tail(items)) ELSE items
RECURSIVE RStrip(_)
RStrip(items) ==
    IF items # <<>> /\ items[Len(items)] = ""
    THEN RStrip(SubSeq(items, 1, Len(items) - 1)) ELSE items
\* str.strip() on a normalised string.
strip(items) == RStrip(LStrip(items))

\* str.split(): the non-empty items.
split(items) == SelectSeq(items, LAMBDA it : it # "")

\* len() of the string the items spell (items joined by single spaces).
RECURSIVE StrLen(_)
StrLen(items) ==
    IF items = <<>> THEN 0
    ELSE IF Len(items) = 1 THEN ItemLen(items[1])
    ELSE ItemLen(Head(items)) + 1 + StrLen(Tail(items))

\* f" {cand} " in f" {msg} ": cand occurs in msg item-aligned and contiguous.
PaddedIn(cand, msg) ==
    \E i \in 1..(Len(msg) - Len(cand) + 1) :
        SubSeq(msg, i, i + Len(cand) - 1) = cand

\* kw in text, for a keyword given as words ("" at an end of the keyword
\* stands for a leading or trailing space in it) and a lower-cased text.
KeywordIn(kw, text) ==
    \E i \in 1..(Len(text) - Len(kw) + 1) :
        IF Len(kw) = 1 THEN IsSubstr(kw[1], text[i])
        ELSE \A j \in 1..Len(kw) :
                CASE j = 1 -> IsSuffix(kw[j], text[i])
                  [] j = Len(kw) -> IsPrefix(kw[j], text[i + j - 1])
                  [] OTHER -> kw[j] = text[i + j - 1]

(***************************************************************************)
(* Team resolver.  A team is [entry_id, entry_name, short_name], the names *)
(* being texts; teams is the list the league_entries tool returned.        *)
(***************************************************************************)
\* The (score, token count, length) entry that Agent._resolve_team appends
\* for one candidate name, normalised and stripped to cand, or <<>> when it
\* appends none.
ScoreCandidate(cand, weight, msg) ==
    IF cand = <<>> THEN <<>>
    ELSE IF cand = msg THEN <<<<3, Len(split(cand)), StrLen(cand)>>>>
    ELSE IF PaddedIn(cand, msg)
         THEN <<<<2 + weight, Len(split(cand)), StrLen(cand)>>>>
    ELSE IF Len(split(cand)) = 1 /\ ItemLen(split(cand)[1]) < 4 THEN <<>>
    ELSE IF \A i \in 1..Len(split(cand)) : split(cand)[i] \in Range(split(msg))
         THEN <<<<1 + weight, Len(split(cand)), StrLen(cand)>>>>
    ELSE <<>>

\* The entries of `scored` that hold team t, one per key.
Keyed(keys, t) == [i \in 1..Len(keys) |-> [key |-> keys[i], t |-> t]]

\* The list `scored` before sorting: entries [key, t] in the order appended.
Scored(teams, msg) ==
    Flatten([k \in 1..Len(teams) |->
        Keyed(ScoreCandidate(strip(_normalize_text(teams[k].entry_name)), 0, msg),
              teams[k])
        \o Keyed(ScoreCandidate(strip(_normalize_text(teams[k].short_name)), -1, msg),
                 teams[k])])

\* a sorts strictly before b under sort(key=(s[0], s[1], s[2]), reverse=True).
KeyGreater(a, b) ==
    \/ a[1] > b[1]
    \/ a[1] = b[1] /\ a[2] > b[2]
    \/ a[1] = b[1] /\ a[2] = b[2] /\ a[3] > b[3]

RECURSIVE InsertDesc(_, _)
\* Insert e into the sorted list after every entry that does not sort after it.
InsertDesc(sorted, e) ==
    IF sorted = <<>> THEN <<e>>
    ELSE IF KeyGreater(e.key, Head(sorted).key) THEN <<e>> \o sorted
    ELSE <<Head(sorted)>> \o InsertDesc(Tail(sorted), e)

RECURSIVE SortDesc(_)
\* list.sort(..., reverse=True): descending and stable.
SortDesc(s) ==
    IF s = <<>> THEN <<>>
    ELSE InsertDesc(SortDesc(SubSeq(s, 1, Len(s) - 1)), s[Len(s)])

\* {b[3].get("entry_id"): b[3] for b in best}.values(): one team per
\* entry_id, placed at the id's first occurrence, holding its last one.
UniqueTeams(best) ==
    LET first == SelectSeq([i \in 1..Len(best) |-> i],
                     LAMBDA i : \A j \in 1..(i - 1) :
                         best[j].t.entry_id # best[i].t.entry_id)
        last(i) == CHOOSE j \in i..Len(best) :
                      /\ best[j].t.entry_id = best[i].t.entry_id
                      /\ \A k \in (j + 1)..Len(best) :
                            best[k].t.entry_id # best[i].t.entry_id
    IN  [n \in 1..Len(first) |-> best[last(first[n])].t]

\* best = [s for s in scored if s[0] == best_score]
Best(scored) == SelectSeq(scored, LAMBDA s : s.key[1] = scored[1].key[1])

\* [m for m in unique if m.get("entry_name")]
Named(unique) == SelectSeq(unique, LAMBDA m : m.entry_name # <<>>)

\* The return of Agent._resolve_team for the de-duplicated best teams.
Pick(unique) ==
    IF Len(unique) = 1
    THEN [entry_id |-> Some(unique[1].entry_id),
          entry_name |-> Some(unique[1].entry_name),
          multiple |-> None]
    ELSE [entry_id |-> None, entry_name |-> None,
          multiple |-> Some([i \in 1..Len(Named(unique)) |->
                                Named(unique)[i].entry_name])]

\* Agent._resolve_team from the sorted list `scored` on.
Ranked(scored) ==
    IF scored = <<>>
    THEN [entry_id |-> None, entry_name |-> None, multiple |-> None]
    ELSE Pick(UniqueTeams(Best(scored)))

\* Agent._resolve_team from the normalised message on.
Resolved(teams, msg) ==
    IF msg = <<>>
    THEN [entry_id |-> None, entry_name |-> None, multiple |-> None]
    ELSE Ranked(SortDesc(Scored(teams, msg)))

\* Agent._resolve_team on the fetched team list: [entry_id, entry_name,
\* multiple], each optional (multiple is the optional candidate-name list).
resolve_team_in(teams, text) == Resolved(teams, strip(_normalize_text(text)))

\* The test of Agent._resolve_team_exact on one team.
ExactHit(t, target) ==
    /\ target # <<>>
    /\ \/ strip(_normalize_text(t.entry_name)) = target
       \/ strip(_normalize_text(t.short_name)) = target

\* The return of Agent._resolve_team_exact for the teams that pass its test.
FirstHit(hits) ==
    IF hits = <<>> THEN [entry_id |-> None, entry_name |-> None]
    ELSE [entry_id |-> Some(hits[1].entry_id),
          entry_name |-> Some(hits[1].entry_name)]

\* Agent._resolve_team_exact on the fetched team list: [entry_id, entry_name].
resolve_team_exact_in(teams, name) ==
    FirstHit(SelectSeq(teams,
                 LAMBDA t : ExactHit(t, strip(_normalize_text(name)))))

\* A variant of Matched that looks for a candidate of the message's name
\* before it takes the message as a position.
Matched_names_first(msg, candidates) ==
    IF \E i \in 1..Len(candidates) : strip(_normalize_text(candidates[i])) = msg
    THEN First(SelectSeq(candidates,
                   LAMBDA c : strip(_normalize_text(c)) = msg))
    ELSE IF /\ Len(msg) = 1 /\ IsDigitItem(msg[1])
            /\ 1 <= IntOf(msg[1]) /\ IntOf(msg[1]) <= Len(candidates)
    THEN Some(candidates[IntOf(msg[1])])
    ELSE First(SelectSeq(candidates,
                   LAMBDA c : /\ strip(_normalize_text(c)) # <<>>
                              /\ PaddedIn(strip(_normalize_text(c)), msg)))

\* Agent._match_candidate from the normalised message on.
Matched(msg, candidates) ==
    IF /\ Len(msg) = 1 /\ IsDigitItem(msg[1])
       /\ 1 <= IntOf(msg[1]) /\ IntOf(msg[1]) <= Len(candidates)
    THEN Some(candidates[IntOf(msg[1])])
    ELSE First(SelectSeq(candidates,
                   LAMBDA c : strip(_normalize_text(c)) = msg)
               \o SelectSeq(candidates,
                      LAMBDA c : /\ strip(_normalize_text(c)) # <<>>
                                 /\ PaddedIn(strip(_normalize_text(c)), msg)))

\* Agent._match_candidate: the chosen candidate, or None.
_match_candidate(text, candidates) ==
    Matched(strip(_normalize_text(text)), candidates)

(***************************************************************************)
(* The league served by the tool backend.                                  *)
(***************************************************************************)
\* Two teams share the short name BG; two have names that normalise alike.
Teams ==
    << [entry_id |-> 100, entry_name |-> <<"Boot", "Gang">>, short_name |-> <<"BG">>],
       [entry_id |-> 200, entry_name |-> <<"Glock", "Tua">>, short_name |-> <<"GT">>],
       [entry_id |-> 300, entry_name |-> <<"Big", "Guns">>, short_name |-> <<"BG">>],
       [entry_id |-> 400, entry_name |-> <<"Boot-Gang">>, short_name |-> <<"KO">>] >>

\* SETTINGS.league_id and SETTINGS.entry_id, the configured league and team
\* (LEAGUE_ID, ENTRY_ID).
SETTINGS == [league_id |-> 14204, entry_id |-> 88888]

(***************************************************************************)
(* Parameter extraction (Agent._extract_param).  The numerals of the       *)
(* vocabulary are given with their value and digit count; a keyword may be *)
(* fused with its numeral in one word ("gw27").                            *)
(***************************************************************************)
\* Display words that are numerals: [val, digits].
NumWord(w) ==
    CASE w = "1" -> <<[val |-> 1, digits |-> 1]>>
      [] w = "2" -> <<[val |-> 2, digits |-> 1]>>
      [] w = "3" -> <<[val |-> 3, digits |-> 1]>>
      [] w = "27" -> <<[val |-> 27, digits |-> 2]>>
      [] w = "123" -> <<[val |-> 123, digits |-> 3]>>
      [] w = "286192" -> <<[val |-> 286192, digits |-> 6]>>
      [] w = "55555" -> <<[val |-> 55555, digits |-> 5]>>
      [] OTHER -> <<>>

\* Words in which a keyword is directly followed by a numeral: [kw, num].
FusedWord(w) ==
    CASE w \in {"gw27", "GW27"} ->
             <<[kw |-> "gw", num |-> [val |-> 27, digits |-> 2]]>>
      [] OTHER -> <<>>

RECURSIVE Pow10(_)
Pow10(k) == IF k = 0 THEN 1 ELSE 10 * Pow10(k - 1)

\* The integer a group (\d{lo,hi}) captures at the start of numeral num.
Capture(num, lo, hi) ==
    IF num.digits < lo THEN None
    ELSE IF num.digits <= hi THEN Some(num.val)
    ELSE Some(num.val \div Pow10(num.digits - hi))

\* _PARAM_PATTERNS: the keywords that introduce each parameter's numeral and
\* the digit counts its group accepts.  ("id" may follow "league", "entry".)
_PARAM_PATTERNS ==
    [league_id |-> [kws |-> {"league"}, lo |-> 4, hi |-> 6],
     gw |-> [kws |-> {"gw", "gameweek", "week"}, lo |-> 1, hi |-> 2],
     horizon |-> [kws |-> {"horizon"}, lo |-> 1, hi |-> 2],
     entry_id |-> [kws |-> {"entry", "entry_id", "entry-id"}, lo |-> 4, hi |-> 8]]

\* The numeral k words after word i of text, or <<>>.
NumAfter(text, i, k) == IF i + k <= Len(text) THEN NumWord(text[i + k]) ELSE <<>>

\* Word w ends in one of the pattern's keywords.
KeywordEnds(pat, w) == \E kw \in pat.kws : IsSuffix(kw, w) /\ kw # ""

\* The capture of pattern pat at word i of text, or None.
MatchAt(param, pat, text, i) ==
    IF FusedWord(text[i]) # <<>> /\ FusedWord(text[i])[1].kw \in pat.kws
    THEN Capture(FusedWord(text[i])[1].num, pat.lo, pat.hi)
    ELSE IF ~KeywordEnds(pat, Lower(text[i])) THEN None
    ELSE IF NumAfter(text, i, 1) # <<>>
    THEN Capture(NumAfter(text, i, 1)[1], pat.lo, pat.hi)
    ELSE IF /\ param \in {"league_id", "entry_id"} /\ i + 1 <= Len(text)
            /\ Lower(text[i + 1]) = "id" /\ NumAfter(text, i, 2) # <<>>
    THEN Capture(NumAfter(text, i, 2)[1], pat.lo, pat.hi)
    ELSE None

\* The pattern's captures in the text, in order.
Captures(param, pat, text) ==
    SelectSeq([i \in 1..Len(text) |-> MatchAt(param, pat, text, i)],
              LAMBDA m : m # None)

\* Agent._extract_param: the first match in the text, or None.
_extract_param(param, text) ==
    IF param \notin DOMAIN _PARAM_PATTERNS THEN None
    ELSE FirstOr(Captures(param, _PARAM_PATTERNS[param], text), None)

_extract_league_id(text) == _extract_param("league_id", text)
_extract_gw(text) == _extract_param("gw", text)
_extract_horizon(text) == _extract_param("horizon", text)
_extract_entry_id(text) == _extract_param("entry_id", text)

\* Python's `a or b` on optional integers.
Or(a, b) == IF Truthy(a) THEN a ELSE b
\* Python's `a or b` on optional texts.
OrText(a, b) == IF a # <<>> /\ a[1] # <<>> THEN a ELSE b

(***************************************************************************)
(* Session.                                                                *)
(***************************************************************************)
EmptySession ==
    [league_id |-> None, entry_id |-> None, entry_name |-> None,
     gw |-> None, last_tool |-> None]

\* Agent._default_league_id (an integer).
_default_league_id(session) ==
    IF Truthy(session.league_id) THEN Val(session.league_id)
    ELSE SETTINGS.league_id

\* Agent._default_entry_id.
_default_entry_id(session) ==
    IF Truthy(session.entry_id) THEN session.entry_id ELSE None

\* Agent._default_entry_name.
_default_entry_name(session) == OrText(session.entry_name, None)

\* Agent._default_gw.
_default_gw(session) == session.gw

\* A caller-supplied context or a tool's arguments: a record whose fields
\* hold optional values; a missing key and an explicit null both read None.
Get(args, k) == IF k \in DOMAIN args THEN args[k] ELSE None

\* Agent._update_session_from_context.
_update_session_from_context(session, context) ==
    [session EXCEPT
        !.league_id = IF Truthy(Get(context, "league_id"))
                      THEN Get(context, "league_id") ELSE @,
        !.entry_id = IF Truthy(Get(context, "entry_id"))
                     THEN Get(context, "entry_id") ELSE @,
        !.entry_name = OrText(Get(context, "entry_name"), @),
        !.gw = IF Get(context, "gw") # None THEN Get(context, "gw") ELSE @]

\* Agent._update_session_from_text.
_update_session_from_text(session, text) ==
    [session EXCEPT
        !.league_id = Or(_extract_league_id(text), @),
        !.entry_id = Or(_extract_entry_id(text), @),
        !.gw = OrNone(_extract_gw(text), @)]

\* Agent._note_tool_use.
_note_tool_use(session, name, args) ==
    [session EXCEPT
        !.last_tool = Some(name),
        !.league_id = Or(Get(args, "league_id"), @),
        !.entry_id = Or(Get(args, "entry_id"), @),
        !.entry_name = OrText(Get(args, "entry_name"), @),
        !.gw = OrNone(OrNone(Get(args, "gw"), Get(args, "as_of_gw")), @)]

(***************************************************************************)
(* Intent classifier.                                                      *)
(***************************************************************************)
\* Agent._INTENT_KEYWORDS.  A pattern is the set of keywords that must all
\* occur (a plain string pattern is a set of one); a keyword is its words.
_INTENT_KEYWORDS ==
    [draft_picks |->
        {{<<"draft">>, <<"pick">>}, {<<"draft">>, <<"picks">>},
         {<<"draft">>, <<"order">>}, {<<"draft">>, <<"history">>},
         {<<"draft">>, <<"round">>}, {<<"draft">>, <<"drafted">>},
         {<<"draft">>, <<"who", "did">>}},
     player_gw_stats |->
        {{<<"stats", "each", "week">>}, {<<"stats", "per", "week">>},
         {<<"weekly", "stats">>}, {<<"points", "each", "week">>},
         {<<"points", "per", "gameweek">>}, {<<"gw", "points">>},
         {<<"gameweek", "points">>}, {<<"weekly", "breakdown">>},
         {<<"each", "gameweek">>}, {<<"per", "gw">>}},
     transaction_analysis |->
        {{<<"transaction">>, <<"analysis">>}, {<<"most", "targeted">>},
         {<<"who", "added">>}, {<<"who", "dropped">>},
         {<<"position">>, <<"targeted">>}, {<<"position">>, <<"popular">>},
         {<<"popular", "adds">>}, {<<"popular", "drops">>}},
     head_to_head |->
        {{<<"head", "to", "head">>}, {<<"h2h">>}, {<<"record", "against">>}},
     manager_season |->
        {{<<"season", "stats">>}, {<<"season", "history">>},
         {<<"season", "record">>}, {<<"how", "have", "i", "done">>},
         {<<"overall", "record">>}, {<<"weekly", "scores">>},
         {<<"week", "by", "week">>}, {<<"all", "season">>},
         {<<"season", "breakdown">>}, {<<"full", "season">>},
         {<<"season", "summary">>}, {<<"my", "record">>},
         {<<"this", "season">>}},
     current_roster |->
        {{<<"my", "team">>}, {<<"my", "roster">>}, {<<"my", "squad">>},
         {<<"current", "lineup">>}, {<<"current", "roster">>},
         {<<"who's", "on", "my", "team">>}, {<<"show", "my", "team">>},
         {<<"show", "my", "squad">>}, {<<"my", "players">>},
         {<<"who", "do", "i", "have">>}, {<<"my", "starting">>},
         {<<"my", "bench">>}},
     waiver |-> {{<<"waiver">>}},
     streak |-> {{<<"streak">>, <<"win">>}, {<<"in", "a", "row">>, <<"win">>}},
     win_list |->
        {{<<"win">>, <<"week">>}, {<<"win">>, <<"gw">>}, {<<"win">>, <<"gameweek">>},
         {<<"won">>, <<"week">>}, {<<"won">>, <<"gw">>}, {<<"won">>, <<"gameweek">>},
         {<<"wins">>, <<"week">>}, {<<"wins">>, <<"gw">>}, {<<"wins">>, <<"gameweek">>}},
     schedule |-> {{<<"schedule">>}, {<<"who", "does">>, <<"play">>}},
     fixtures |-> {{<<"fixtures">>}, {<<"fixture", "list">>}},
     player_form |-> {{<<"player_form">>}, {<<"player", "form">>}, {<<"form", "table">>}},
     standings |-> {{<<"standings">>}, {<<"table">>}},
     league_summary |-> {{<<"league", "summary">>}, {<<"summary">>, <<"league">>}},
     transactions |->
        {{<<"transactions">>}, {<<"trades">>}, {<<"waivers">>, <<"summary">>}},
     lineup |-> {{<<"lineup", "efficiency">>}, {<<"bench", "points">>}},
     strength |-> {{<<"strength", "of", "schedule">>}, {<<"schedule", "difficulty">>}},
     ownership |-> {{<<"ownership">>}, {<<"scarcity">>}},
     matchup_summary |->
        {{<<"", "vs", "">>, <<"summary">>}, {<<"", "vs", "">>, <<"recap">>},
         {<<"", "vs.", "">>, <<"summary">>}, {<<"", "vs.", "">>, <<"recap">>}}]

\* The patterns a keyword table holds for an intent.
PatternsOf(table, intent) ==
    IF intent \in DOMAIN table THEN table[intent] ELSE {}

\* A variant of _looks_like in which one token of a tuple pattern is enough.
_looks_like_any_token(intent, text) ==
    \E pattern \in PatternsOf(_INTENT_KEYWORDS, intent) :
        \E kw \in pattern : KeywordIn(kw, text)

\* Agent._looks_like, on the lower-cased text.
_looks_like(intent, text) ==
    \E pattern \in PatternsOf(_INTENT_KEYWORDS, intent) :
        \A kw \in pattern : KeywordIn(kw, text)

\* Agent._GREETING_PATTERNS.
_GREETING_PATTERNS ==
    {<<"hello">>, <<"hi">>, <<"hey">>, <<"howdy">>, <<"yo">>, <<"sup">>,
     <<"good", "morning">>, <<"good", "afternoon">>, <<"good", "evening">>,
     <<"what's", "up">>, <<"whats", "up">>, <<"how", "are", "you">>,
     <<"thanks">>, <<"thank", "you">>, <<"cheers">>, <<"bye">>, <<"goodbye">>}

\* lower.startswith(g) for a greeting g given as words.
StartsWith(text, g) ==
    /\ Len(text) >= Len(g)
    /\ \A j \in 1..Len(g) :
          IF j = Len(g) THEN IsPrefix(g[j], text[j]) ELSE g[j] = text[j]

\* Agent._is_greeting, on the lower-cased text (the vocabulary's words carry
\* no trailing "!?.,").
_is_greeting(text) ==
    \/ text \in _GREETING_PATTERNS
    \/ Len(text) <= 4 /\ \E g \in _GREETING_PATTERNS : StartsWith(text, g)

(***************************************************************************)
(* The tool backend (MCPClient.call_tool) as the agent sees it: a call     *)
(* returns a JSON object, returns something that is no object (None when   *)
(* the response has no content), or raises.  Which of these the k-th call  *)
(* of a turn does is the environment's choice, be[k].                      *)
(***************************************************************************)
BackendOutcomes == {"ok", "empty", "raise"}
\* The most backend calls one turn of the model makes on the fast path.
MaxCalls == 2
\* str(exc) of the exception a failing call raises.
RaiseMsg == "connection refused"
\* str(exc) when the server's error names a file it could not open.
PathRaiseMsg == "open data/raw/gw/99/live.json: no such file or directory"
\* The outcomes that are exceptions, and the message of each.
Raises(outcome) == outcome \in {"raise", "raise_path"}
RaiseMsgOf(outcome) == IF outcome = "raise_path" THEN PathRaiseMsg ELSE RaiseMsg

NoResult == [isdict |-> FALSE, error |-> None, teams |-> <<>>,
             entry_name |-> None, matches |-> FALSE]

TeamName(entry_id) ==
    LET hits == SelectSeq(Teams, LAMBDA t : Some(t.entry_id) = entry_id)
    IN  IF hits = <<>> THEN None ELSE Some(hits[1].entry_name)

\* The object a successful call returns.
ToolResult(name, args) ==
    [isdict |-> TRUE, error |-> None,
     teams |-> IF name = "league_entries" THEN Teams ELSE <<>>,
     entry_name |-> TeamName(Get(args, "entry_id")),
     matches |-> TRUE]

\* Agent._sanitize_error.
_sanitize_error(msg) ==
    CASE msg = "open data/raw/gw/99/live.json: no such file or directory" ->
             "No data available for GW99. The data may not have been fetched yet."
      [] msg = "open data/raw/bootstrap.json: no such file or directory" ->
             "The requested data file was not found. Try refreshing your data."
      [] msg = "read data/derived/summary.json: unexpected EOF" -> "unexpected EOF"
      [] OTHER -> msg

(***************************************************************************)
(* One turn's working state while the fast path runs:                      *)
(*   session, pending  the Agent's fields                                  *)
(*   tool_events       the turn's event log                                *)
(*   handlers          the handler invocations made, in order              *)
(*   resolutions       the Team Resolver calls made and what each returned *)
(*   calls             the number of backend calls made                    *)
(***************************************************************************)
Event(type, name, payload) == [type |-> type, name |-> name, payload |-> payload]

Reply(kind, detail) == [kind |-> kind, detail |-> detail]

NoPending ==
    [intent |-> None, candidates |-> None, league_id |-> None, text |-> None]

\* What Agent._call_tool gets of the backend: the value the call returns or,
\* when it raises, the error object _call_tool makes of the exception.
Answer(outcome, name, args) ==
    CASE Raises(outcome) ->
             [NoResult EXCEPT !.isdict = TRUE,
                              !.error = Some(_sanitize_error(RaiseMsgOf(outcome)))]
      [] outcome = "ok" -> ToolResult(name, args)
      [] OTHER -> NoResult

\* The event Agent._call_tool logs for what it got.
Outcome(name, result) ==
    IF result.error # None THEN Event("tool_error", name, Val(result.error))
    ELSE Event("tool_result", name, result)

\* A variant of Called that logs nothing for a call that raised.
Called_error_unlogged(noted, name, result) ==
    [st |-> IF result.error # None THEN noted
            ELSE [noted EXCEPT !.tool_events = Append(@, Outcome(name, result))],
     result |-> result]

\* Agent._call_tool once the call was noted and made: [st, result].
Called(noted, name, result) ==
    [st |-> [noted EXCEPT !.tool_events = Append(@, Outcome(name, result))],
     result |-> result]

\* Agent._call_tool: [st, result].
_call_tool(st, name, args, be) ==
    Called([st EXCEPT
               !.session = _note_tool_use(@, name, args),
               !.tool_events = Append(@, Event("tool_call", name, args)),
               !.calls = @ + 1],
           name, Answer(be[st.calls + 1], name, args))

\* A variant of _set_pending that records the configured league instead of
\* the league the handler used.
_set_pending_configured_league(st, intent, league_id, candidates, original_text) ==
    [st EXCEPT !.pending =
        [intent |-> Some(intent), candidates |-> Some(candidates),
         league_id |-> Some(SETTINGS.league_id), text |-> Some(original_text)]]

\* Agent._set_pending.
_set_pending(st, intent, league_id, candidates, original_text) ==
    [st EXCEPT !.pending =
        [intent |-> Some(intent), candidates |-> Some(candidates),
         league_id |-> Some(league_id), text |-> Some(original_text)]]

\* Agent._format_candidates: "1) name 2) name ...", as <<number, name>> pairs.
_format_candidates(candidates) ==
    [idx \in 1..Len(candidates) |-> <<idx, candidates[idx]>>]

\* data.get("teams", []) if isinstance(data, dict) else []
TeamsOf(result) == IF result.isdict THEN result.teams ELSE <<>>

\* Agent._resolve_team returning res after the call c: [st, res].
Resolution(c, league_id, text, res) ==
    [st |-> [c.st EXCEPT !.resolutions =
                Append(@, [league_id |-> league_id, text |-> text, res |-> res])],
     res |-> res]

\* Agent._resolve_team after the call c: [st, res].
Fetched(c, league_id, text) ==
    Resolution(c, league_id, text, resolve_team_in(TeamsOf(c.result), text))

\* Agent._resolve_team: [st, res].
_resolve_team(st, league_id, text, be) ==
    Fetched(_call_tool(st, "league_entries", [league_id |-> Some(league_id)], be),
            league_id, text)

\* Agent._resolve_team_exact returning after the call c: [st, res].
ExactResolution(c, name) ==
    [st |-> c.st, res |-> resolve_team_exact_in(TeamsOf(c.result), name)]

\* Agent._resolve_team_exact: [st, res].
_resolve_team_exact(st, league_id, name, be) ==
    ExactResolution(_call_tool(st, "league_entries",
                               [league_id |-> Some(league_id)], be), name)

\* A handler's invocation, as logged in st.handlers.
Invoke(st, handler, text, entry_id_override) ==
    [st EXCEPT !.handlers =
        Append(@, [handler |-> handler, text |-> text,
                   entry_id_override |-> entry_id_override])]

(***************************************************************************)
(* Handlers.  Each returns [st, reply]; reply is None where the Python     *)
(* handler returns None.                                                   *)
(***************************************************************************)
\* The tool arguments a team-scoped handler builds.
HandlerArgs(h, league_id, entry_id, gw, horizon) ==
    LET base == [league_id |-> Some(league_id), entry_id |-> entry_id]
        gwArg == IF gw # None THEN [gw |-> gw] ELSE <<>>
    IN  CASE h = "_handle_current_roster" -> gwArg @@ base
          [] h = "_handle_waiver" ->
                 (IF horizon # None THEN [horizon |-> horizon] ELSE <<>>)
                 @@ gwArg @@ base
          [] h = "_handle_schedule" ->
                 IF gw # None THEN [gw |-> gw, horizon |-> Some(1)] @@ base
                 ELSE [horizon |-> Or(horizon, Some(5))] @@ base
          [] h = "_handle_wins_list" ->
                 [gw |-> Some(1), horizon |-> Some(38)] @@ base
          [] OTHER -> base

\* Per handler: the intent it records when it asks for a choice, the tool it
\* calls, whether it reads a gameweek, and its fixed replies.
HandlerTable ==
    [_handle_current_roster |->
        [intent |-> "roster", tool |-> "current_roster", reads_gw |-> TRUE,
         ask |-> "Which team's roster would you like? Please provide a team name or entry ID.",
         unavailable |-> "Roster data is unavailable right now.",
         own_label_first |-> TRUE, fallback |-> <<"your", "team">>],
     _handle_manager_season |->
        [intent |-> "season", tool |-> "manager_season", reads_gw |-> FALSE,
         ask |-> "Which team's season history would you like? Please provide a team name or entry ID.",
         unavailable |-> "Season data is unavailable right now.",
         own_label_first |-> TRUE, fallback |-> <<"your", "team">>],
     _handle_waiver |->
        [intent |-> "waiver", tool |-> "waiver_recommendations", reads_gw |-> TRUE,
         ask |-> "Which team should I run waivers for? Please provide a team name or entry ID.",
         unavailable |-> "Waiver recommendations are unavailable right now.",
         own_label_first |-> TRUE, fallback |-> <<"your", "team">>],
     _handle_schedule |->
        [intent |-> "schedule", tool |-> "manager_schedule", reads_gw |-> TRUE,
         ask |-> "Which team do you want the schedule for?",
         unavailable |-> "Schedule data is unavailable right now.",
         own_label_first |-> FALSE, fallback |-> <<"That", "team">>],
     _handle_streak |->
        [intent |-> "streak", tool |-> "manager_streak", reads_gw |-> FALSE,
         ask |-> "Which team should I check for win streaks?",
         unavailable |-> "Streak data is unavailable right now.",
         own_label_first |-> FALSE, fallback |-> <<"That", "team">>],
     _handle_wins_list |->
        [intent |-> "wins", tool |-> "manager_schedule", reads_gw |-> FALSE,
         ask |-> "Which team do you want win weeks for?",
         unavailable |-> "Schedule data is unavailable right now.",
         own_label_first |-> FALSE, fallback |-> <<"That", "team">>]]

\* What a team-scoped handler renders from the tool's result.
Render(h, result, team_name) ==
    LET row == HandlerTable[h]
        label == IF row.own_label_first
                 THEN OrText(OrText(team_name, result.entry_name), Some(row.fallback))
                 ELSE OrText(OrText(result.entry_name, team_name), Some(row.fallback))
    IN  IF ~result.isdict THEN Reply(row.unavailable, <<>>)
        ELSE IF h = "_handle_schedule" /\ ~result.matches
             THEN Reply("No matches found for that request.", <<>>)
        ELSE IF h = "_handle_wins_list" /\ ~result.matches
             THEN Reply("has no completed wins yet.", <<Val(label)>>)
        ELSE Reply(row.intent, <<Val(label)>>)

\* league_id, gw as every handler reads them from the text and the session.
LeagueOf(st, text) ==
    Val(Or(_extract_league_id(text), Some(_default_league_id(st.session))))
GwOf(st, text) == OrNone(_extract_gw(text), _default_gw(st.session))
GwOrZero(gw) == OrNone(gw, Some(0))

\* `if not entry_id: entry_id, team_name, multiple = self._resolve_team(...)`
\* as the handlers that resolve a team do it: [st, entry_id, entry_name,
\* multiple], multiple being None where no resolution was made.
AsTeam(r) ==
    [st |-> r.st, entry_id |-> r.res.entry_id, entry_name |-> r.res.entry_name,
     multiple |-> r.res.multiple]
TeamOf(st, entry_id, team_name, league_id, text, be) ==
    IF Truthy(entry_id)
    THEN [st |-> st, entry_id |-> entry_id, entry_name |-> team_name,
          multiple |-> None]
    ELSE AsTeam(_resolve_team(st, league_id, text, be))

\* `if multiple:` on the optional candidate list.
Several(multiple) == multiple # None /\ Val(multiple) # <<>>

\* The body shared by the six handlers that take a team override: resolve
\* league, gameweek, horizon and team, ask when the team is ambiguous or
\* missing, else call the tool and render.
TeamScoped(h, st0, text, entry_id_override, team_name_override, be) ==
    LET row == HandlerTable[h]
        rendered(c, team_name) ==
            [st |-> c.st, reply |-> Some(Render(h, c.result, team_name))]
        decided(team, league_id) ==
            IF Several(team.multiple)
            THEN [st |-> _set_pending(team.st, row.intent, league_id,
                                      Val(team.multiple), text),
                  reply |-> Some(Reply("I found multiple matching teams",
                                       _format_candidates(Val(team.multiple))))]
            ELSE IF ~Truthy(team.entry_id)
            THEN [st |-> team.st, reply |-> Some(Reply(row.ask, <<>>))]
            ELSE rendered(
                     _call_tool(team.st, row.tool,
                         HandlerArgs(h, league_id, team.entry_id,
                             IF row.reads_gw THEN GwOf(st0, text) ELSE None,
                             _extract_horizon(text)), be),
                     team.entry_name)
    IN  decided(TeamOf(Invoke(st0, h, text, entry_id_override),
                       Or(entry_id_override,
                          Or(_extract_entry_id(text), _default_entry_id(st0.session))),
                       OrText(team_name_override, _default_entry_name(st0.session)),
                       LeagueOf(st0, text), text, be),
                LeagueOf(st0, text))

_handle_current_roster(st, text, entry_id_override, team_name_override, be) ==
    TeamScoped("_handle_current_roster", st, text, entry_id_override, team_name_override, be)
_handle_manager_season(st, text, entry_id_override, team_name_override, be) ==
    TeamScoped("_handle_manager_season", st, text, entry_id_override, team_name_override, be)
_handle_waiver(st, text, entry_id_override, team_name_override, be) ==
    TeamScoped("_handle_waiver", st, text, entry_id_override, team_name_override, be)
_handle_schedule(st, text, entry_id_override, team_name_override, be) ==
    TeamScoped("_handle_schedule", st, text, entry_id_override, team_name_override, be)
_handle_streak(st, text, entry_id_override, team_name_override, be) ==
    TeamScoped("_handle_streak", st, text, entry_id_override, team_name_override, be)
_handle_wins_list(st, text, entry_id_override, team_name_override, be) ==
    TeamScoped("_handle_wins_list", st, text, entry_id_override, team_name_override, be)

\* Agent._handle_draft_picks.
_handle_draft_picks(st0, text, be) ==
    LET rendered(c) ==
            IF ~c.result.isdict
            THEN [st |-> c.st, reply |-> Some(Reply("Draft history is unavailable right now.", <<>>))]
            ELSE [st |-> c.st, reply |-> Some(Reply("draft_picks", <<>>))]
        \* on several candidates: no pending request, the LLM takes over
        decided(team, league_id) ==
            IF Several(team.multiple) THEN [st |-> team.st, reply |-> None]
            ELSE rendered(_call_tool(team.st, "draft_picks",
                     (IF Truthy(team.entry_id) THEN [entry_id |-> team.entry_id]
                      ELSE <<>>)
                     @@ [league_id |-> Some(league_id)], be))
    IN  decided(TeamOf(Invoke(st0, "_handle_draft_picks", text, None),
                       Or(_extract_entry_id(text), _default_entry_id(st0.session)),
                       None, LeagueOf(st0, text), text, be),
                LeagueOf(st0, text))

\* Agent._handle_lineup_efficiency.
_handle_lineup_efficiency(st0, text, be) ==
    LET rendered(c, entry_id) ==
            IF ~c.result.isdict
            THEN [st |-> c.st, reply |-> Some(Reply("Lineup efficiency data is unavailable.", <<>>))]
            ELSE [st |-> c.st, reply |-> Some(Reply("lineup_efficiency", <<Or(entry_id, Some(0))>>))]
        \* on several candidates: the prompt, and no pending request
        decided(team, league_id) ==
            IF Several(team.multiple)
            THEN [st |-> team.st,
                  reply |-> Some(Reply("I found multiple matching teams",
                                       _format_candidates(Val(team.multiple))))]
            ELSE rendered(_call_tool(team.st, "lineup_efficiency",
                              [league_id |-> Some(league_id),
                               gw |-> GwOrZero(GwOf(st0, text))], be),
                          team.entry_id)
    IN  decided(TeamOf(Invoke(st0, "_handle_lineup_efficiency", text, None),
                       Or(_extract_entry_id(text), _default_entry_id(st0.session)),
                       None, LeagueOf(st0, text), text, be),
                LeagueOf(st0, text))

\* Agent._handle_simple_tool.
_handle_simple_tool(st0, text, tool, title, be) ==
    LET done(c) ==
            IF c.result.isdict /\ tool = "standings"
            THEN [st |-> c.st, reply |-> Some(Reply("standings", <<>>))]
            ELSE IF c.result.isdict
            THEN [st |-> c.st, reply |-> Some(Reply("data is ready.", <<title>>))]
            ELSE [st |-> c.st, reply |-> Some(Reply("data is unavailable.", <<title>>))]
    IN  done(_call_tool(Invoke(st0, "_handle_simple_tool", text, None), tool,
                 [league_id |-> Some(LeagueOf(st0, text)),
                  gw |-> GwOrZero(GwOf(st0, text))], be))

\* Agent._handle_league_summary.
_handle_league_summary(st0, text, be) ==
    LET done(c) ==
            IF ~c.result.isdict
            THEN [st |-> c.st, reply |-> Some(Reply("League summary is unavailable right now.", <<>>))]
            ELSE [st |-> c.st, reply |-> Some(Reply("league_summary", <<>>))]
        call(gw) ==
            done(_call_tool(Invoke(st0, "_handle_league_summary", text, None), "league_summary",
                 (IF gw # None THEN [gw |-> gw] ELSE <<>>)
                 @@ [league_id |-> Some(LeagueOf(st0, text))], be))
    IN  call(GwOf(st0, text))

\* Agent._handle_transaction_analysis.
_handle_transaction_analysis(st0, text, be) ==
    LET done(c) ==
            IF ~c.result.isdict
            THEN [st |-> c.st, reply |-> Some(Reply("Transaction analysis is unavailable right now.", <<>>))]
            ELSE [st |-> c.st, reply |-> Some(Reply("transaction_analysis", <<>>))]
    IN  done(_call_tool(Invoke(st0, "_handle_transaction_analysis", text, None), "transaction_analysis",
                 [league_id |-> Some(LeagueOf(st0, text)),
                  gw |-> GwOrZero(GwOf(st0, text))], be))

\* Agent._handle_fixtures.
_handle_fixtures(st0, text, be) ==
    LET done(c) ==
            IF ~c.result.isdict
            THEN [st |-> c.st, reply |-> Some(Reply("Fixture data is unavailable right now.", <<>>))]
            ELSE IF ~c.result.matches
            THEN [st |-> c.st, reply |-> Some(Reply("No fixtures found.", <<>>))]
            ELSE [st |-> c.st, reply |-> Some(Reply("fixtures", <<>>))]
        call(gw) ==
            done(_call_tool(Invoke(st0, "_handle_fixtures", text, None), "fixtures",
                 (IF gw # None THEN [as_of_gw |-> gw] ELSE <<>>)
                 @@ [league_id |-> Some(LeagueOf(st0, text)),
                     horizon |-> Or(_extract_horizon(text), Some(5))], be))
    IN  call(GwOf(st0, text))

\* Agent._handle_player_form.
_handle_player_form(st0, text, be) ==
    LET done(c) ==
            IF ~c.result.isdict
            THEN [st |-> c.st, reply |-> Some(Reply("Player form data is unavailable right now.", <<>>))]
            ELSE IF ~c.result.matches
            THEN [st |-> c.st, reply |-> Some(Reply("No player form data found.", <<>>))]
            ELSE [st |-> c.st, reply |-> Some(Reply("player_form", <<>>))]
    IN  done(_call_tool(Invoke(st0, "_handle_player_form", text, None), "player_form",
                 [league_id |-> Some(LeagueOf(st0, text)),
                  horizon |-> Or(_extract_horizon(text), Some(5)),
                  as_of_gw |-> GwOrZero(GwOf(st0, text))], be))

\* The handlers of these intents (player_gw_stats, head_to_head, transactions,
\* matchup_summary) are outside the model; no text of the vocabulary is
\* classified as one of them.
OutsideModel(st0, intent, text) ==
    [st |-> Invoke(st0, intent, text, None),
     reply |-> Some(Reply("(handler outside the model)", <<intent>>))]

\* Agent._looks_like_team_name_only: [st, res], res a Boolean.
_looks_like_team_name_only(st, text, league_id, be) ==
    LET keywords == {"waiver", "schedule", "fixture", "streak", "standings",
                     "transactions", "lineup", "ownership", "trade", "wins",
                     "roster", "squad", "draft", "season", "h2h"}
        found(r) == [st |-> r.st, res |-> r.res.entry_id # None]
    IN  IF Len(text) > 6 \/ \E k \in keywords : KeywordIn(<<k>>, lower(text))
        THEN [st |-> st, res |-> FALSE]
        ELSE found(_resolve_team_exact(st, league_id, text, be))

(***************************************************************************)
(* Pending disambiguation and the router.                                  *)
(***************************************************************************)
\* The test at the head of Agent._maybe_resolve_pending: a request is pending.
HasPending(p) ==
    /\ p.intent # None
    /\ p.candidates # None /\ Val(p.candidates) # <<>>
    /\ Truthy(p.league_id)

\* The dispatch at the end of Agent._maybe_resolve_pending.
Reinvoke(st, intent, original_text, entry_id, entry_name, be) ==
    CASE intent = "waiver" -> _handle_waiver(st, original_text, entry_id, entry_name, be)
      [] intent = "schedule" -> _handle_schedule(st, original_text, entry_id, entry_name, be)
      [] intent = "streak" -> _handle_streak(st, original_text, entry_id, entry_name, be)
      [] intent = "wins" -> _handle_wins_list(st, original_text, entry_id, entry_name, be)
      [] intent = "roster" -> _handle_current_roster(st, original_text, entry_id, entry_name, be)
      [] intent = "season" -> _handle_manager_season(st, original_text, entry_id, entry_name, be)
      [] OTHER -> [st |-> st, reply |-> None]

\* A variant of _maybe_resolve_pending that gives the request up when the
\* message matches no candidate, and lets the router carry on.
_maybe_resolve_pending_giving_up(st, text, be) ==
    LET p == st.pending
        original_text == IF p.text # None /\ Val(p.text) # <<>>
                         THEN Val(p.text) ELSE text
        looked_up(r) ==
            IF r.res.entry_id = None
            THEN [st |-> r.st,
                  reply |-> Some(Reply("I couldn't find that team in the league.",
                                       _format_candidates(Val(p.candidates))))]
            ELSE Reinvoke([r.st EXCEPT !.pending = NoPending], Val(p.intent),
                          original_text, r.res.entry_id, r.res.entry_name, be)
        matched(candidate) ==
            IF candidate = None
            THEN [st |-> [st EXCEPT !.pending = NoPending], reply |-> None]
            ELSE looked_up(_resolve_team_exact(st, Val(p.league_id),
                                               Val(candidate), be))
    IN  IF ~HasPending(p) THEN [st |-> st, reply |-> None]
        ELSE matched(_match_candidate(text, Val(p.candidates)))

\* A variant of _maybe_resolve_pending that clears the request before it
\* looks the chosen name up.
_maybe_resolve_pending_clearing_first(st, text, be) ==
    LET p == st.pending
        original_text == IF p.text # None /\ Val(p.text) # <<>>
                         THEN Val(p.text) ELSE text
        looked_up(r) ==
            IF r.res.entry_id = None
            THEN [st |-> [r.st EXCEPT !.pending = NoPending],
                  reply |-> Some(Reply("I couldn't find that team in the league.",
                                       _format_candidates(Val(p.candidates))))]
            ELSE Reinvoke([r.st EXCEPT !.pending = NoPending], Val(p.intent),
                          original_text, r.res.entry_id, r.res.entry_name, be)
        matched(candidate) ==
            IF candidate = None
            THEN [st |-> st,
                  reply |-> Some(Reply("Which team do you mean?",
                                       _format_candidates(Val(p.candidates))))]
            ELSE looked_up(_resolve_team_exact(st, Val(p.league_id),
                                               Val(candidate), be))
    IN  IF ~HasPending(p) THEN [st |-> st, reply |-> None]
        ELSE matched(_match_candidate(text, Val(p.candidates)))

\* The text the pending request's handler is run on again.
OriginalText(p, text) ==
    IF p.text # None /\ Val(p.text) # <<>> THEN Val(p.text) ELSE text

\* Agent._maybe_resolve_pending once the chosen name was looked up as r.
Chosen(p, r, text, be) ==
    IF r.res.entry_id = None
    THEN [st |-> r.st,
          reply |-> Some(Reply("I couldn't find that team in the league.",
                               _format_candidates(Val(p.candidates))))]
    ELSE Reinvoke([r.st EXCEPT !.pending = NoPending], Val(p.intent),
                  OriginalText(p, text), r.res.entry_id, r.res.entry_name, be)

\* Agent._maybe_resolve_pending once the message was matched against the
\* candidates.
Answered(st, candidate, text, be) ==
    IF candidate = None
    THEN [st |-> st,
          reply |-> Some(Reply("Which team do you mean?",
                               _format_candidates(Val(st.pending.candidates))))]
    ELSE Chosen(st.pending,
                _resolve_team_exact(st, Val(st.pending.league_id),
                                    Val(candidate), be),
                text, be)

\* Agent._maybe_resolve_pending: [st, reply].
_maybe_resolve_pending(st, text, be) ==
    IF ~HasPending(st.pending) THEN [st |-> st, reply |-> None]
    ELSE Answered(st, _match_candidate(text, Val(st.pending.candidates)), text, be)

\* The dispatch of Agent._try_route once no pending request answered.
Dispatch(st, text, be) ==
    LET low == lower(text)
        bare(only) ==
            IF only.res
            THEN [st |-> only.st,
                  reply |-> Some(Reply("What would you like to know about that team?", <<text>>))]
            ELSE [st |-> only.st, reply |-> None]
    IN  IF _is_greeting(low)
        THEN [st |-> st, reply |-> Some(Reply("Hey! I'm your FPL Draft assistant.", <<>>))]
        ELSE IF _looks_like("draft_picks", low) THEN _handle_draft_picks(st, text, be)
        ELSE IF _looks_like("player_gw_stats", low) THEN OutsideModel(st, "player_gw_stats", text)
        ELSE IF _looks_like("transaction_analysis", low) THEN _handle_transaction_analysis(st, text, be)
        ELSE IF _looks_like("head_to_head", low) THEN OutsideModel(st, "head_to_head", text)
        ELSE IF _looks_like("manager_season", low) THEN _handle_manager_season(st, text, None, None, be)
        ELSE IF _looks_like("current_roster", low) THEN _handle_current_roster(st, text, None, None, be)
        ELSE IF _looks_like("waiver", low) THEN _handle_waiver(st, text, None, None, be)
        ELSE IF _looks_like("streak", low) THEN _handle_streak(st, text, None, None, be)
        ELSE IF _looks_like("win_list", low) THEN _handle_wins_list(st, text, None, None, be)
        ELSE IF _looks_like("schedule", low) THEN _handle_schedule(st, text, None, None, be)
        ELSE IF _looks_like("fixtures", low) THEN _handle_fixtures(st, text, be)
        ELSE IF _looks_like("player_form", low) THEN _handle_player_form(st, text, be)
        ELSE IF _looks_like("standings", low)
             THEN _handle_simple_tool(st, text, "standings", "Standings", be)
        ELSE IF _looks_like("league_summary", low) THEN _handle_league_summary(st, text, be)
        ELSE IF _looks_like("transactions", low) THEN OutsideModel(st, "transactions", text)
        ELSE IF _looks_like("lineup", low) THEN _handle_lineup_efficiency(st, text, be)
        ELSE IF _looks_like("strength", low)
             THEN _handle_simple_tool(st, text, "strength_of_schedule", "Strength of schedule", be)
        ELSE IF _looks_like("ownership", low)
             THEN _handle_simple_tool(st, text, "ownership_scarcity", "Ownership scarcity", be)
        ELSE IF _looks_like("matchup_summary", low) THEN OutsideModel(st, "matchup_summary", text)
        ELSE IF KeywordIn(<<"league", "entries">>, low) \/ KeywordIn(<<"all", "teams">>, low)
             THEN _handle_simple_tool(st, text, "league_entries", "League teams", be)
        ELSE bare(_looks_like_team_name_only(st, text, LeagueOf(st, text), be))

\* A variant of _try_route that dispatches a message holding an intent's
\* keywords before it looks at the pending request.
_try_route_query_first(st, user_message, be) ==
    LET routed(pending) ==
            IF pending.reply # None THEN pending
            ELSE Dispatch(IF \E intent \in DOMAIN _INTENT_KEYWORDS :
                                _looks_like(intent, lower(user_message))
                          THEN st ELSE pending.st, user_message, be)
    IN  IF user_message = <<>> THEN [st |-> st, reply |-> None]
        ELSE routed(IF \E intent \in DOMAIN _INTENT_KEYWORDS :
                            _looks_like(intent, lower(user_message))
                    THEN [st |-> st, reply |-> None]
                    ELSE _maybe_resolve_pending(st, user_message, be))

\* A variant of Routed that classifies and dispatches a message the pending
\* resolver answered without a lookup (by its re-prompt).
Routed_classifying_unmatched(pending, user_message, be) ==
    IF pending.reply # None /\ pending.st.calls > 0 THEN pending
    ELSE Dispatch(pending.st, user_message, be)

\* Agent._try_route once the pending request had its say.
Routed(pending, user_message, be) ==
    IF pending.reply # None THEN pending
    ELSE Dispatch(pending.st, user_message, be)

\* Agent._try_route: [st, reply].
_try_route(st, user_message, be) ==
    IF user_message = <<>> THEN [st |-> st, reply |-> None]
    ELSE Routed(_maybe_resolve_pending(st, user_message, be), user_message, be)

(***************************************************************************)
(* Argument defaulting for the LLM path.                                   *)
(***************************************************************************)
\* A variant of SetDefault that writes the default over a member the object
\* has.
SetDefault_overwriting(out, k, v) == [x \in {k} |-> v] @@ out
\* A variant of SetDefault that writes a null where the member is missing.
SetDefault_writing_null(out, k, v) ==
    IF k \in DOMAIN out THEN out ELSE [x \in {k} |-> None] @@ out

\* dict.setdefault.
SetDefault(out, k, v) == IF k \in DOMAIN out THEN out ELSE [x \in {k} |-> v] @@ out
Put(out, k, v) == [x \in {k} |-> v] @@ out
Pop(out, k) == [x \in DOMAIN out \ {k} |-> out[x]]
\* A filter that lets every key through.
Keep_everything(out, allowed) == out
Keep(out, allowed) == [x \in DOMAIN out \cap allowed |-> out[x]]
\* if src in out and dst not in out: out[dst] = out.pop(src)
Rename(out, src, dst) ==
    IF src \in DOMAIN out /\ dst \notin DOMAIN out
    THEN Put(Pop(out, src), dst, out[src]) ELSE out

\* str.strip on a string that is kept whole (a model's output, a part of a
\* name): the strings of the model that carry whitespace at their ends.
StripText(text) ==
    CASE text = "Boot Gang is top. " -> "Boot Gang is top."
      [] text = " " -> ""
      [] OTHER -> text

\* A name given in parts.  A part is an optional string of one word; a name
\* object {"first": f, "last": l} is the text <<"{", f, l, "}">>, which no
\* team name is (a missing part is ""); a joined name is a text as everywhere.
TruthyStr(o) == o # None /\ o[1] # ""
NamePart(o) == IF o = None THEN "" ELSE StripText(o[1])
JoinNames(first, last) ==
    SelectSeq(<<NamePart(first), NamePart(last)>>, LAMBDA part : part # "")
IsNameDict(o) == o # None /\ o[1] # <<>> /\ o[1][1] = "{"

\* `if first or last:` of Agent._apply_defaults (lines 326-331).
MergeSplit(out) ==
    IF TruthyStr(Get(out, "first")) \/ TruthyStr(Get(out, "last"))
    THEN Pop(Pop(IF JoinNames(Get(out, "first"), Get(out, "last")) # <<>>
                    /\ OrText(Get(out, "entry_name"), None) = None
                 THEN Put(out, "entry_name",
                          Some(JoinNames(Get(out, "first"), Get(out, "last"))))
                 ELSE out,
                 "first"), "last")
    ELSE out

\* `if isinstance(out.get("entry_name"), dict):` (lines 332-340).
MergeDict(out) ==
    IF IsNameDict(Get(out, "entry_name"))
    THEN IF JoinNames(Some(out.entry_name[1][2]), Some(out.entry_name[1][3])) # <<>>
         THEN Put(out, "entry_name",
                  Some(JoinNames(Some(out.entry_name[1][2]),
                                 Some(out.entry_name[1][3]))))
         ELSE Pop(out, "entry_name")
    ELSE out

\* The start of Agent._apply_defaults (lines 322-340).
MergeNames(name, args) ==
    IF name \in {"manager_schedule", "league_entries"}
    THEN MergeDict(MergeSplit(args)) ELSE args

\* A variant of BoolOf that first rewrites the other spellings of a truth
\* value to "true" and "false", and makes the boolean of these two only.
BoolOf_by_stages(o) ==
    CASE o \in {Some("1"), Some("yes"), Some("Yes ")} -> Some("true")
      [] o \in {Some("0"), Some("no")} -> Some("false")
      [] o = Some("true") -> Some("True")
      [] o = Some("false") -> Some("False")
      [] OTHER -> o

\* The include_raw member of fixture_difficulty (lines 378-383): a string
\* that reads as a truth value becomes the boolean, here "True" or "False".
BoolOf(o) ==
    CASE o \in {Some("true"), Some("1"), Some("yes"), Some("Yes ")} -> Some("True")
      [] o \in {Some("false"), Some("0"), Some("no")} -> Some("False")
      [] OTHER -> o
IncludeRaw(out) ==
    IF "include_raw" \in DOMAIN out
    THEN Put(out, "include_raw", BoolOf(out.include_raw)) ELSE out

\* Agent._apply_defaults from line 341 on, on the object with merged names.
Defaults(name, args, session) ==
    LET league_id == IF Truthy(Get(args, "league_id")) THEN Val(Get(args, "league_id"))
                     ELSE _default_league_id(session)
        gwDefault(o) == IF "gw" \notin DOMAIN o /\ _default_gw(session) # None
                        THEN Put(o, "gw", _default_gw(session)) ELSE o
        o1 == IF name \in {"waiver_recommendations", "manager_schedule", "manager_streak",
                           "current_roster", "manager_season", "head_to_head"}
              THEN LET a == IF ~Truthy(Get(args, "entry_id"))
                               /\ Truthy(_default_entry_id(session))
                            THEN Put(args, "entry_id", _default_entry_id(session))
                            ELSE args
                   IN  IF OrText(Get(a, "entry_name"), None) = None
                          /\ _default_entry_name(session) # None
                       THEN Put(a, "entry_name", _default_entry_name(session))
                       ELSE a
              ELSE args
        o2 == IF name \in {"league_summary", "matchup_breakdown", "standings",
                           "transactions", "lineup_efficiency", "strength_of_schedule",
                           "ownership_scarcity", "transaction_analysis"}
              THEN SetDefault(gwDefault(SetDefault(o1, "league_id", Some(league_id))),
                              "gw", Some(0))
              ELSE o1
        o3 == IF name \in {"league_entries", "manager_schedule", "manager_streak",
                           "current_roster", "draft_picks", "manager_season",
                           "head_to_head", "transaction_analysis"}
              THEN SetDefault(o2, "league_id", Some(league_id))
              ELSE o2
    IN  CASE name = "fixtures" ->
                Keep(SetDefault(SetDefault(Rename(
                        SetDefault(o3, "league_id", Some(league_id)),
                        "gw", "as_of_gw"), "as_of_gw", Some(0)), "horizon", Some(1)),
                     {"league_id", "as_of_gw", "horizon"})
          [] name = "fixture_difficulty" ->
                Keep(IncludeRaw(
                         Rename(Rename(SetDefault(o3, "league_id", Some(league_id)),
                                       "gw", "as_of_gw"), "target_gw", "next_gw")),
                     {"league_id", "as_of_gw", "next_gw", "horizon", "limit", "include_raw"})
          [] name = "manager_schedule" ->
                Keep(SetDefault(o3, "horizon", Some(1)),
                     {"league_id", "entry_id", "entry_name", "gw", "horizon"})
          [] name = "manager_streak" ->
                Keep(o3, {"league_id", "entry_id", "entry_name", "start_gw", "end_gw"})
          [] name = "league_entries" -> Keep(o3, {"league_id"})
          [] name = "player_form" ->
                Keep(SetDefault(SetDefault(Rename(
                        SetDefault(o3, "league_id", Some(league_id)),
                        "gw", "as_of_gw"), "horizon", Some(5)), "as_of_gw", Some(0)),
                     {"league_id", "as_of_gw", "horizon"})
          [] name = "current_roster" ->
                Keep(gwDefault(o3), {"league_id", "entry_id", "entry_name", "gw"})
          [] name = "draft_picks" -> Keep(o3, {"league_id", "entry_id", "entry_name"})
          [] name = "manager_season" -> Keep(o3, {"league_id", "entry_id", "entry_name"})
          [] name = "transaction_analysis" -> Keep(o3, {"league_id", "gw"})
          [] name = "player_gw_stats" ->
                Keep(Rename(o3, "gw", "start_gw"),
                     {"element_id", "player_name", "start_gw", "end_gw"})
          [] name = "head_to_head" ->
                Keep(o3, {"league_id", "entry_id_a", "entry_name_a",
                          "entry_id_b", "entry_name_b"})
          [] OTHER -> o3

\* Agent._apply_defaults on an argument object.
_apply_defaults(name, args, session) ==
    Defaults(name, MergeNames(name, args), session)

(***************************************************************************)
(* The LLM's outputs.  try_parse_json (llm.py) is json.loads of the raw    *)
(* text: it fails on text that is no JSON and succeeds on any JSON value,  *)
(* object or not.                                                          *)
(***************************************************************************)
LLMOutputs ==
    {"Boot Gang is top.", "Boot Gang is top. ", " ", "", "[1, 2]", "{}",
     "{\"action\":\"final\",\"content\":\"Done.\"}",
     "{\"action\":\"final\",\"content\":42}",
     "{\"action\":\"tool\",\"name\":\"manager_schedule\",\"arguments\":{\"entry_id\":200}}",
     "{\"action\":\"league_summary\",\"arguments\":{}}",
     "{\"action\":\"tool\",\"name\":\"standings\",\"arguments\":\"all\"}"}

\* A parsed JSON value: its type and, for an object, the members the loop
\* reads (None where the object has no such member).
Json(type) ==
    [type |-> type, action |-> None, name |-> None,
     arguments |-> None, content |-> None]

\* try_parse_json: [ok, data].
try_parse_json(text) ==
    CASE text = "[1, 2]" -> [ok |-> TRUE, data |-> Json("array")]
      [] text = "{}" -> [ok |-> TRUE, data |-> Json("object")]
      [] text = "{\"action\":\"final\",\"content\":\"Done.\"}" ->
             [ok |-> TRUE, data |-> [Json("object") EXCEPT
                 !.action = Some("final"),
                 !.content = Some([type |-> "str", value |-> "Done."])]]
      [] text = "{\"action\":\"final\",\"content\":42}" ->
             [ok |-> TRUE, data |-> [Json("object") EXCEPT
                 !.action = Some("final"),
                 !.content = Some([type |-> "int", value |-> "42"])]]
      [] text = "{\"action\":\"tool\",\"name\":\"manager_schedule\",\"arguments\":{\"entry_id\":200}}" ->
             [ok |-> TRUE, data |-> [Json("object") EXCEPT
                 !.action = Some("tool"), !.name = Some("manager_schedule"),
                 !.arguments = Some([type |-> "object",
                                     value |-> [entry_id |-> Some(200)]])]]
      [] text = "{\"action\":\"league_summary\",\"arguments\":{}}" ->
             [ok |-> TRUE, data |-> [Json("object") EXCEPT
                 !.action = Some("league_summary"),
                 !.arguments = Some([type |-> "object", value |-> <<>>])]]
      [] text = "{\"action\":\"tool\",\"name\":\"standings\",\"arguments\":\"all\"}" ->
             [ok |-> TRUE, data |-> [Json("object") EXCEPT
                 !.action = Some("tool"), !.name = Some("standings"),
                 !.arguments = Some([type |-> "str", value |-> "all"])]]
      [] OTHER -> [ok |-> FALSE, data |-> Json("object")]

(***************************************************************************)
(* Conversation history.                                                   *)
(***************************************************************************)
history_limit == 6

\* A user's text and an LLM's raw text as message contents.
Text(words) == Reply("", words)
Raw(text) == Reply(text, <<>>)
Blank(content) == content.kind = "" /\ content.detail = <<>>

\* (content or "").strip() of a message content.
Stripped(content) == Reply(StripText(content.kind), content.detail)

\* A variant of _append_history that, over the limit, keeps the oldest
\* entries and drops the newest.
_append_history_keeping_oldest(history, role, content) ==
    LET text == Stripped(content)
        appended == Append(history, [role |-> role, content |-> text])
        max_msgs == history_limit * 2
    IN  IF Blank(text) THEN history
        ELSE IF Len(appended) > max_msgs
        THEN SubSeq(appended, 1, max_msgs)
        ELSE appended

\* Agent._append_history.
_append_history(history, role, content) ==
    LET text == Stripped(content)
        appended == Append(history, [role |-> role, content |-> text])
        max_msgs == history_limit * 2
    IN  IF Blank(text) THEN history
        ELSE IF Len(appended) > max_msgs
        THEN SubSeq(appended, Len(appended) - max_msgs + 1, Len(appended))
        ELSE appended

\* The two appends every returning path of Agent.run makes.
Record(history, user_message, content) ==
    _append_history(
        IF user_message # <<>> THEN _append_history(history, "user", Text(user_message))
        ELSE history,
        "assistant", content)

(***************************************************************************)
(* What the conversation's user says, and the context the caller passes.   *)
(***************************************************************************)
Utterances ==
    {<<"waiver", "recs", "for", "BG">>, <<"schedule", "for", "BG">>,
     <<"waiver", "recs", "for", "Boot", "Gang">>,
     <<"bench", "points", "for", "BG">>, <<"draft", "picks", "for", "BG">>,
     <<"1">>, <<"2">>, <<"3">>, <<"Big", "Guns", "please">>,
     <<"zzz">>, <<"standings">>, <<>>}

Contexts == {<<>>, [league_id |-> Some(55555)]}

(***************************************************************************)
(* The /chat requests the server receives.                                 *)
(***************************************************************************)
MaxRequests == 3
Requests == 1..MaxRequests

(***************************************************************************)
(* The conversation.                                                       *)
(***************************************************************************)
VARIABLES
    session,        \* Agent._session
    pending,        \* Agent._pending_intent, _candidates, _league_id, _text
    history,        \* Agent._history
    llm_available,  \* LLMClient.available()
    turn,           \* the number of run() calls made
    pc,             \* "idle" between turns, "llm" inside the LLM loop
    user_message,   \* the turn's stripped message
    tool_events,    \* the turn's event log
    handlers,       \* the handler invocations of the turn
    resolutions,    \* the Team Resolver calls of the turn
    loop_start,     \* Len(tool_events) when the turn entered the LLM loop
    step,           \* iterations of the LLM loop completed
    llm_calls,      \* llm.generate calls of the turn
    raw,            \* the model's latest output in the turn
    content,        \* what the turn returned (None: nothing yet, or it raised)
    outcome,        \* how the turn ended
    defaulted,      \* the _apply_defaults call made on its own: its tool
                    \* name, its argument object, its result, and the result
                    \* of applying it to that result (None: no such call)
    resolved,       \* the _resolve_team call made on its own: its message
                    \* and what it returned (None: no such call)
    matched,        \* the _match_candidate call made on its own: its
                    \* message, its candidates and what it returned
    mcp,            \* an MCPClient: its session_id, the requests it has
                    \* posted, the calls made on it and how the last ended
    _CHAT_SESSIONS, \* server._CHAT_SESSIONS: session id -> Agent
    chats,          \* the /chat requests: each one's position in chat(),
                    \* its session_id and its agent
    reported,       \* the run_report call made on its own: its payload and
                    \* how it ended (None: no such call)
    cache,          \* the cache refresh: the lifespan's position, whether
                    \* the scheduler holds its job, _REFRESH_STATUS's state,
                    \* the refreshes executing, and the last trigger
    summarized,     \* the matchup summary made on its own: the summary's
                    \* entries, the two teams and the reply
    extracted,      \* the _extract_param call made on its own: its parameter,
                    \* its text and what it returned
    looked          \* the _looks_like call made on its own: its intent, its
                    \* text and what it returned

\* The state of the calls made outside a server session.
probes == <<reported, cache, summarized, extracted, looked>>

vars == <<session, pending, history, llm_available, turn, pc, user_message,
          tool_events, handlers, resolutions, loop_start, step, llm_calls,
          raw, content, outcome, defaulted, resolved, matched, mcp,
          _CHAT_SESSIONS, chats, probes>>

\* The agent after construction, were its session s.
Start(s) ==
    /\ session = s
    /\ pending = NoPending
    /\ history = <<>>
    /\ llm_available \in BOOLEAN
    /\ turn = 0
    /\ pc = "idle"
    /\ user_message = <<>>
    /\ tool_events = <<>>
    /\ handlers = <<>>
    /\ resolutions = <<>>
    /\ loop_start = 0
    /\ step = 0
    /\ llm_calls = 0
    /\ raw = ""
    /\ content = None
    /\ outcome = "none"
    /\ defaulted = None
    /\ resolved = None
    /\ matched = None
    /\ mcp = [session_id |-> None, posted |-> <<>>, calls |-> 0, last |-> None]
    /\ _CHAT_SESSIONS = <<>>
    /\ chats = [r \in Requests |-> [pc |-> "none", session_id |-> <<>>, agent |-> None]]
    /\ reported = None
    /\ summarized = None
    /\ extracted = None
    /\ looked = None
    /\ cache = [lifespan |-> "none", scheduler |-> FALSE, state |-> "idle",
                executing |-> <<>>, requests |-> 0, last |-> None]

Init == Start(EmptySession)

\* A variant of Return that records the reply but not the user's utterance.
Return_forgetting_user(kind, msg, reply) ==
    /\ pc' = "idle"
    /\ outcome' = kind
    /\ content' = Some(reply)
    /\ history' = _append_history(history, "assistant", reply)

\* A returning path of run(): record the turn and hand back the content.
Return(kind, msg, reply) ==
    /\ pc' = "idle"
    /\ outcome' = kind
    /\ content' = Some(reply)
    /\ history' = Record(history, msg, reply)

\* An exception leaving run().
Raise(hist) ==
    /\ pc' = "idle"
    /\ outcome' = "exception"
    /\ content' = None
    /\ history' = hist

\* Agent.run up to the LLM loop (lines 205-236), in a conversation of at most
\* `turns` calls.
RunWithin(turns, msg, context, be) ==
    LET s1 == _update_session_from_text(
                  _update_session_from_context(session, context), msg)
        st0 == [session |-> s1, pending |-> pending, tool_events |-> <<>>,
                handlers |-> <<>>, resolutions |-> <<>>, calls |-> 0]
    IN  /\ pc = "idle"
        /\ turn < turns
        /\ \E direct \in {_try_route(st0, msg, be)} :
           /\ turn' = turn + 1
           /\ user_message' = msg
           /\ session' = direct.st.session
           /\ pending' = direct.st.pending
           /\ tool_events' = direct.st.tool_events
           /\ handlers' = direct.st.handlers
           /\ resolutions' = direct.st.resolutions
           /\ loop_start' = Len(direct.st.tool_events)
           /\ step' = 0
           /\ llm_calls' = 0
           /\ raw' = ""
           /\ UNCHANGED <<llm_available, defaulted, resolved, matched, mcp,
                        _CHAT_SESSIONS, chats, probes>>
           /\ IF direct.reply # None THEN Return("fast", msg, Val(direct.reply))
              ELSE IF ~llm_available
              THEN Return("llm_unavailable", msg,
                          Reply("OPENAI_API_KEY not set; unable to use LLM. Please set it and retry.", <<>>))
              ELSE /\ pc' = "llm"
                   /\ outcome' = "running"
                   /\ content' = None
                   /\ UNCHANGED history

Run(msg, context, be) == RunWithin(MaxTurns, msg, context, be)

\* A variant of ToolStep that logs no tool_result event for a result that is
\* no object.
ToolStep_unlogged_empty(name, arguments, backend) ==
    LET usable == arguments = None \/ Val(arguments).type = "object"
        given == IF arguments = None THEN <<>> ELSE Val(arguments).value
        args == _apply_defaults(name, given, session)
        result == IF backend = "ok" THEN ToolResult(name, args) ELSE NoResult
        call == Event("tool_call", name, args)
    IN  IF ~usable
        THEN \* dict(args) raises in _apply_defaults
             /\ Raise(history)
             /\ UNCHANGED <<session, tool_events, step>>
        ELSE /\ session' = _note_tool_use(session, name, args)
             /\ IF Raises(backend)
                THEN /\ tool_events' = tool_events \o
                            <<call, Event("tool_error", name, RaiseMsgOf(backend))>>
                     /\ Return("tool_error", user_message,
                            Reply("Tool error:", <<RaiseMsgOf(backend)>>))
                     /\ UNCHANGED step
                ELSE /\ tool_events' = tool_events \o
                            (IF result.isdict
                             THEN <<call, Event("tool_result", name, result)>>
                             ELSE <<call>>)
                     /\ IF name \in {"league_summary", "standings"} /\ result.isdict
                        THEN /\ Return("short_circuit", user_message, Reply(name, <<>>))
                             /\ UNCHANGED step
                        ELSE /\ step' = step + 1
                             /\ UNCHANGED <<pc, outcome, content, history>>

\* A variant of ToolStep that goes on to the next iteration after a tool
\* raised.
ToolStep_carrying_on(name, arguments, backend) ==
    LET usable == arguments = None \/ Val(arguments).type = "object"
        given == IF arguments = None THEN <<>> ELSE Val(arguments).value
        args == _apply_defaults(name, given, session)
        result == IF backend = "ok" THEN ToolResult(name, args) ELSE NoResult
        call == Event("tool_call", name, args)
    IN  IF ~usable
        THEN \* dict(args) raises in _apply_defaults
             /\ Raise(history)
             /\ UNCHANGED <<session, tool_events, step>>
        ELSE /\ session' = _note_tool_use(session, name, args)
             /\ IF Raises(backend)
                THEN /\ tool_events' = tool_events \o
                            <<call, Event("tool_error", name, RaiseMsgOf(backend))>>
                     /\ step' = step + 1
                     /\ UNCHANGED <<pc, outcome, content, history>>
                ELSE /\ tool_events' = tool_events \o
                            <<call, Event("tool_result", name, result)>>
                     /\ IF name \in {"league_summary", "standings"} /\ result.isdict
                        THEN /\ Return("short_circuit", user_message, Reply(name, <<>>))
                             /\ UNCHANGED step
                        ELSE /\ step' = step + 1
                             /\ UNCHANGED <<pc, outcome, content, history>>

\* The tool step of the loop from the defaulted arguments on (lines 264-289).
ToolCall(name, args, backend) ==
    LET result == IF backend = "ok" THEN ToolResult(name, args) ELSE NoResult
        call == Event("tool_call", name, args)
    IN  /\ session' = _note_tool_use(session, name, args)
        /\ IF Raises(backend)
           THEN /\ tool_events' = tool_events \o
                       <<call, Event("tool_error", name, RaiseMsgOf(backend))>>
                /\ Return("tool_error", user_message,
                            Reply("Tool error:", <<RaiseMsgOf(backend)>>))
                /\ UNCHANGED step
           ELSE /\ tool_events' = tool_events \o
                       <<call, Event("tool_result", name, result)>>
                /\ IF name \in {"league_summary", "standings"} /\ result.isdict
                   THEN /\ Return("short_circuit", user_message, Reply(name, <<>>))
                        /\ UNCHANGED step
                   ELSE /\ step' = step + 1
                        /\ UNCHANGED <<pc, outcome, content, history>>

\* The tool step of the loop (lines 259-289) for a tool name and the
\* arguments member of the envelope (None where it has none).
ToolStep(name, arguments, backend) ==
    IF arguments # None /\ Val(arguments).type # "object"
    THEN \* dict(args) raises in _apply_defaults
         /\ Raise(history)
         /\ UNCHANGED <<session, tool_events, step>>
    ELSE ToolCall(name,
                  _apply_defaults(name,
                      IF arguments = None THEN <<>> ELSE Val(arguments).value,
                      session),
                  backend)

\* data.get("action"), data.get("name", "") and data.get("content", "") of
\* the parsed envelope; a legacy envelope names the tool as its action.
ActionOf(data) == IF data.action = None THEN "" ELSE Val(data.action)
Legacy(data) == ActionOf(data) # "" /\ ActionOf(data) \notin {"tool", "final"}
NameOf(data) ==
    IF Legacy(data) THEN ActionOf(data)
    ELSE IF data.name = None THEN "" ELSE Val(data.name)
FinalOf(data) ==
    IF data.content = None THEN [type |-> "str", value |-> ""]
    ELSE Val(data.content)

\* The iteration from the parsed JSON value on (lines 248-294).
Envelope(output, data, backend) ==
    IF data.type # "object"
    THEN \* data.get raises
         /\ Raise(history)
         /\ UNCHANGED <<session, tool_events, step>>
    ELSE IF ActionOf(data) = "final"
    THEN /\ IF FinalOf(data).type = "str"
            THEN Return("final", user_message, Raw(FinalOf(data).value))
            ELSE \* content.strip() raises in _append_history
                 Raise(IF user_message # <<>>
                       THEN _append_history(history, "user", Text(user_message))
                       ELSE history)
         /\ UNCHANGED <<session, tool_events, step>>
    ELSE IF Legacy(data) \/ ActionOf(data) = "tool"
    THEN ToolStep(NameOf(data), data.arguments, backend)
    ELSE /\ Return("no_action", user_message, Raw(output))
         /\ UNCHANGED <<session, tool_events, step>>

\* One iteration of the LLM loop (lines 238-294): the model answers output, and
\* the backend answers the tool call, if one is made, as `backend` says.
LLMStep(output, backend) ==
    /\ pc = "llm"
    /\ step < max_steps
    /\ llm_calls' = llm_calls + 1
    /\ raw' = output
    /\ UNCHANGED <<pending, llm_available, turn, user_message, handlers,
                   resolutions, loop_start, defaulted, resolved, matched,
                   mcp, _CHAT_SESSIONS, chats, probes>>
    /\ IF ~try_parse_json(output).ok
       THEN /\ Return("raw", user_message, Raw(output))
            /\ UNCHANGED <<session, tool_events, step>>
       ELSE Envelope(output, try_parse_json(output).data, backend)

\* The loop ran max_steps iterations (lines 296-300).
LLMExhausted ==
    /\ pc = "llm"
    /\ step = max_steps
    /\ Return("max_steps", user_message, Reply("Max steps reached.", <<>>))
    /\ UNCHANGED <<session, pending, llm_available, turn, user_message,
                   tool_events, handlers, resolutions, loop_start, step, llm_calls,
                   raw, defaulted, resolved, matched, mcp, _CHAT_SESSIONS, chats, probes>>

Next ==
    \/ \E msg \in Utterances, context \in Contexts,
          be \in [1..MaxCalls -> BackendOutcomes] : Run(msg, context, be)
    \/ \E output \in LLMOutputs, backend \in BackendOutcomes : LLMStep(output, backend)
    \/ LLMExhausted

Spec == Init /\ [][Next]_vars

(***************************************************************************)
(* Two narrower conversations.  In the first the model answers every       *)
(* prompt in plain text, so that a turn the fast path leaves to the LLM    *)
(* ends at once; in the second the user only says what the fast path       *)
(* leaves to the LLM, and the model answers anything.                      *)
(***************************************************************************)
PlainOutputs == {"Boot Gang is top."}

NextDialogue ==
    \/ \E msg \in Utterances, context \in Contexts,
          be \in [1..MaxCalls -> BackendOutcomes] : Run(msg, context, be)
    \/ \E output \in PlainOutputs : LLMStep(output, "ok")

SpecDialogue == Init /\ [][NextDialogue]_vars

LLMUtterances == {<<"zzz">>, <<"draft", "picks", "for", "BG">>, <<>>}

NextLLM ==
    \/ \E msg \in LLMUtterances, context \in Contexts,
          be \in [1..MaxCalls -> BackendOutcomes] : Run(msg, context, be)
    \/ \E output \in LLMOutputs, backend \in BackendOutcomes : LLMStep(output, backend)
    \/ LLMExhausted

SpecLLM == Init /\ [][NextLLM]_vars

(***************************************************************************)
(* A long conversation: enough turns for the history to reach its limit.   *)
(* The user asks for the standings, says something the fast path leaves to *)
(* the LLM, or says nothing; the backend answers every call, and the model *)
(* answers in plain text with whitespace at its end, or with whitespace    *)
(* only.                                                                   *)
(***************************************************************************)
MaxChat == 7

ChatUtterances == {<<"standings">>, <<"zzz">>, <<>>}
ChatOutputs == {"Boot Gang is top. ", " "}

NextHistory ==
    \/ \E msg \in ChatUtterances :
          RunWithin(MaxChat, msg, <<>>, [i \in 1..MaxCalls |-> "ok"])
    \/ \E output \in ChatOutputs : LLMStep(output, "ok")

SpecHistory == Init /\ [][NextHistory]_vars

(***************************************************************************)
(* A conversation about teams with a session default: the user asks a      *)
(* team-scoped question that names one team of the league or none, and the *)
(* caller's context may carry the entry id of the user's own team.         *)
(***************************************************************************)
TeamUtterances ==
    {<<"waiver", "recs", "for", "Big", "Guns">>,
     <<"waiver", "recs", "for", "Glock", "Tua">>,
     <<"waiver", "recs">>, <<"schedule", "for", "Big", "Guns">>}

TeamContexts == {<<>>, [entry_id |-> Some(200)]}

NextTeams ==
    \E msg \in TeamUtterances, context \in TeamContexts,
       be \in [1..MaxCalls -> BackendOutcomes] : Run(msg, context, be)

SpecTeams == Init /\ [][NextTeams]_vars

(***************************************************************************)
(* A conversation with a backend whose failures may name a file: the user  *)
(* asks what the fast path answers with one tool call or with a team       *)
(* lookup and a tool call, or says what is left to the LLM, and the model  *)
(* calls a tool or answers in plain text.                                  *)
(***************************************************************************)
ErrorOutcomes == {"ok", "raise", "raise_path"}

ErrorUtterances ==
    {<<"standings">>, <<"waiver", "recs", "for", "Glock", "Tua">>, <<"zzz">>}

ErrorOutputs ==
    {"Boot Gang is top.",
     "{\"action\":\"tool\",\"name\":\"manager_schedule\",\"arguments\":{\"entry_id\":200}}"}

NextErrors ==
    \/ \E msg \in ErrorUtterances, be \in [1..MaxCalls -> ErrorOutcomes] :
          Run(msg, <<>>, be)
    \/ \E output \in ErrorOutputs, backend \in ErrorOutcomes : LLMStep(output, backend)
    \/ LLMExhausted

SpecErrors == Init /\ [][NextErrors]_vars

(***************************************************************************)
(* Argument defaulting on its own: _apply_defaults applied once, and once  *)
(* more to its result, to an argument object of at most MaxKeys members,   *)
(* for each tool name the function treats and one it does not, in a        *)
(* session with any of its fields set.                                     *)
(***************************************************************************)
MaxKeys == 2

ToolNames ==
    {"waiver_recommendations", "manager_schedule", "manager_streak",
     "current_roster", "manager_season", "head_to_head", "league_summary",
     "matchup_breakdown", "standings", "transactions", "lineup_efficiency",
     "strength_of_schedule", "ownership_scarcity", "transaction_analysis",
     "league_entries", "draft_picks", "fixtures", "fixture_difficulty",
     "player_form", "player_gw_stats", "player_search"}

\* The members an argument object may have, and the values of each (None is
\* an explicit null).
ArgKeys ==
    <<"league_id", "entry_id", "entry_name", "gw", "as_of_gw", "target_gw",
      "next_gw", "start_gw", "horizon", "first", "last", "include_raw">>
ArgValues ==
    [league_id |-> {Some(777), Some(0), None},
     entry_id |-> {Some(300), None},
     entry_name |-> {Some(<<"Big", "Guns">>), Some(<<>>),
                     Some(<<"{", "Boot", "Gang", "}">>), Some(<<"{", "", "", "}">>)},
     gw |-> {Some(7), None},
     as_of_gw |-> {Some(3)},
     target_gw |-> {Some(9), None},
     next_gw |-> {Some(4)},
     start_gw |-> {Some(2)},
     horizon |-> {Some(2)},
     first |-> {Some("Boot"), Some(" "), None},
     last |-> {Some("Gang"), None},
     include_raw |-> {Some("Yes "), Some("maybe"), Some("False")}]

\* The argument objects of at most n members taken from ArgKeys[i], ...
RECURSIVE Objects(_, _)
Objects(i, n) ==
    IF i > Len(ArgKeys) \/ n = 0 THEN {<<>>}
    ELSE Objects(i + 1, n)
         \cup {Put(o, ArgKeys[i], v) :
                   o \in Objects(i + 1, n - 1), v \in ArgValues[ArgKeys[i]]}

ArgObjects == Objects(1, MaxKeys)

Sessions ==
    {[league_id |-> l, entry_id |-> e, entry_name |-> n, gw |-> g,
      last_tool |-> None] :
        l \in {None, Some(55555)}, e \in {None, Some(200)},
        n \in {None, Some(<<"Glock", "Tua">>)}, g \in {None, Some(12)}}

InitDefaults == \E s \in Sessions : Start(s)

\* _apply_defaults(name, args), and _apply_defaults of what it returned.
ApplyDefaults(name, args) ==
    /\ defaulted = None
    /\ defaulted' =
           Some([name |-> name, args |-> args,
                 out |-> _apply_defaults(name, args, session),
                 again |-> _apply_defaults(name,
                               _apply_defaults(name, args, session), session)])
    /\ UNCHANGED <<session, pending, history, llm_available, turn, pc,
                   user_message, tool_events, handlers, resolutions,
                   loop_start, step, llm_calls, raw, content, outcome,
                   resolved, matched, mcp, _CHAT_SESSIONS, chats, probes>>

NextDefaults ==
    /\ defaulted = None
    /\ \E name \in ToolNames, args \in ArgObjects : ApplyDefaults(name, args)

SpecDefaults == InitDefaults /\ [][NextDefaults]_vars

(***************************************************************************)
(* A conversation about a team's matches: the user asks for the schedule   *)
(* of a team, with or without a horizon or a gameweek, for the weeks the   *)
(* team won, for the winners of a gameweek, or for the standings.          *)
(***************************************************************************)
ScheduleUtterances ==
    {<<"schedule", "for", "Big", "Guns">>,
     <<"schedule", "for", "Big", "Guns", "horizon", "3">>,
     <<"schedule", "for", "Big", "Guns", "gw", "2">>,
     <<"wins", "by", "week", "for", "Big", "Guns">>,
     <<"who", "won", "gw27">>, <<"standings">>}

NextSchedule ==
    \E msg \in ScheduleUtterances, be \in [1..MaxCalls -> BackendOutcomes] :
        Run(msg, <<>>, be)

SpecSchedule == Init /\ [][NextSchedule]_vars

(***************************************************************************)
(* A conversation with small talk: the user greets, alone, with a gameweek *)
(* or with a team's name, asks a question that two teams match, or asks    *)
(* for the standings; the caller's context may carry a league.             *)
(***************************************************************************)
GreetingUtterances ==
    {<<"hello">>, <<"hi", "gw", "2">>, <<"hi", "Boot", "Gang">>,
     <<"waiver", "recs", "for", "BG">>, <<"standings">>}

NextGreeting ==
    \E msg \in GreetingUtterances, context \in Contexts,
       be \in [1..MaxCalls -> BackendOutcomes] : Run(msg, context, be)

SpecGreeting == Init /\ [][NextGreeting]_vars

(***************************************************************************)
(* The team resolver on its own: _resolve_team applied once to a message   *)
(* of at most MaxWords words, each a word of a team's name, a short name   *)
(* or a filler, over the league's teams.                                   *)
(***************************************************************************)
MaxWords == 4

NameWords == {"Boot", "Gang", "Big", "Guns", "Glock", "Tua", "BG", "GT", "for"}

\* The texts of at most n words.
RECURSIVE TextsUpTo(_)
TextsUpTo(n) ==
    IF n = 0 THEN {<<>>}
    ELSE TextsUpTo(n - 1)
         \cup {Append(t, w) : t \in {x \in TextsUpTo(n - 1) : Len(x) = n - 1},
                              w \in NameWords}

Messages == TextsUpTo(MaxWords)

\* _resolve_team(league_id, text, tool_events) once the teams are fetched.
ResolveTeam(text) ==
    /\ resolved = None
    /\ resolved' = Some([text |-> text, res |-> resolve_team_in(Teams, text)])
    /\ UNCHANGED <<session, pending, history, llm_available, turn, pc,
                   user_message, tool_events, handlers, resolutions,
                   loop_start, step, llm_calls, raw, content, outcome,
                   defaulted, matched, mcp, _CHAT_SESSIONS, chats, probes>>

NextResolver ==
    /\ resolved = None
    /\ \E text \in Messages : ResolveTeam(text)

SpecResolver == Init /\ [][NextResolver]_vars

(***************************************************************************)
(* Candidate matching on its own: _match_candidate applied once to a       *)
(* message of at most MaxAnswer words and a list of at most MaxCandidates  *)
(* names, among them a numeral, a name that holds a numeral and a name     *)
(* without a letter or digit.                                              *)
(***************************************************************************)
MaxAnswer == 2
MaxCandidates == 3

AnswerWords == {"Boot", "Gang", "2", "2.", "3", "team", "Tua,", "???"}
CandidateNames == {<<"Boot", "Gang">>, <<"2">>, <<"team", "2">>, <<"???">>}

\* The sequences of at most n members of set S.
RECURSIVE SeqsUpTo(_, _)
SeqsUpTo(S, n) ==
    IF n = 0 THEN {<<>>}
    ELSE SeqsUpTo(S, n - 1)
         \cup {Append(t, w) : t \in {x \in SeqsUpTo(S, n - 1) : Len(x) = n - 1},
                              w \in S}

Answers == SeqsUpTo(AnswerWords, MaxAnswer) \ {<<>>}
CandidateLists == SeqsUpTo(CandidateNames, MaxCandidates) \ {<<>>}

\* _match_candidate(text, candidates).
MatchCandidate(text, candidates) ==
    /\ matched = None
    /\ matched' = Some([text |-> text, candidates |-> candidates,
                        res |-> _match_candidate(text, candidates)])
    /\ UNCHANGED <<session, pending, history, llm_available, turn, pc,
                   user_message, tool_events, handlers, resolutions,
                   loop_start, step, llm_calls, raw, content, outcome,
                   defaulted, resolved, mcp, _CHAT_SESSIONS, chats, probes>>

NextMatcher ==
    /\ matched = None
    /\ \E text \in Answers, candidates \in CandidateLists :
          MatchCandidate(text, candidates)

SpecMatcher == Init /\ [][NextMatcher]_vars

(***************************************************************************)
(* The /chat endpoint (server.py).  chat() is a plain function, which the  *)
(* framework runs on a worker thread per request, so the requests' steps   *)
(* interleave.  A session id is a tuple: <<>> is the empty string, the     *)
(* agent a request constructs is known by the request's number.            *)
(***************************************************************************)
PayloadIds == {<<>>, <<"s", 1>>}

\* str(uuid.uuid4()) in request r.
uuid4(r) == <<"uuid", r>>

\* A request arrives: session_id = str(payload.get("session_id") or "").strip()
Receive(r, sid) ==
    /\ chats[r].pc = "none"
    /\ chats' = [chats EXCEPT ![r] = [pc |-> "get", session_id |-> sid, agent |-> None]]
    /\ UNCHANGED _CHAT_SESSIONS

\* agent = _CHAT_SESSIONS.get(session_id) if session_id else None
Lookup(r) ==
    /\ chats[r].pc = "get"
    /\ chats' = [chats EXCEPT
                    ![r].agent = IF chats[r].session_id = <<>> THEN None
                                 ELSE Get(_CHAT_SESSIONS, chats[r].session_id),
                    ![r].pc = IF chats[r].session_id = <<>>
                                 \/ Get(_CHAT_SESSIONS, chats[r].session_id) = None
                              THEN "create" ELSE "run"]
    /\ UNCHANGED _CHAT_SESSIONS

\* The session id under which request r stores the agent it constructs.
StoredId(r) == IF chats[r].session_id = <<>> THEN uuid4(r) ELSE chats[r].session_id

\* if agent is None: construct an Agent and store it under the session id.
Create(r) ==
    /\ chats[r].pc = "create"
    /\ chats' = [chats EXCEPT ![r] = [pc |-> "run", session_id |-> StoredId(r),
                                      agent |-> Some(r)]]
    /\ _CHAT_SESSIONS' = Put(_CHAT_SESSIONS, StoredId(r), Some(r))

\* result = agent.run(user_message, context=payload): the call is made.
RunBegins(r) ==
    /\ chats[r].pc = "run"
    /\ chats' = [chats EXCEPT ![r].pc = "running"]
    /\ UNCHANGED _CHAT_SESSIONS

\* agent.run returns and chat() returns the result.
RunReturns(r) ==
    /\ chats[r].pc = "running"
    /\ chats' = [chats EXCEPT ![r].pc = "done"]
    /\ UNCHANGED _CHAT_SESSIONS

NextChat ==
    /\ \E r \in Requests :
          \/ \E sid \in PayloadIds : Receive(r, sid)
          \/ Lookup(r)
          \/ Create(r)
          \/ RunBegins(r)
          \/ RunReturns(r)
    /\ UNCHANGED <<session, pending, history, llm_available, turn, pc,
                   user_message, tool_events, handlers, resolutions,
                   loop_start, step, llm_calls, raw, content, outcome,
                   defaulted, resolved, matched, mcp, probes>>

SpecChat == Init /\ [][NextChat]_vars

(***************************************************************************)
(* MCPClient (mcp_client.py): one client, on which ensure_session and      *)
(* call_tool are called one after the other, at most MaxOps times.  What   *)
(* the server answers to the initialize request (an HTTP error, or a       *)
(* response with or without an Mcp-Session-Id header) and to the tool call *)
(* is the environment's choice.                                            *)
(***************************************************************************)
MaxOps == 3

InitResponses ==
    {[status |-> st, header |-> h] :
        st \in {"ok", "error"},
        h \in {None, Some(""), Some("sess-1"), Some("sess-2")}}

ToolResponses == {"ok", "empty", "raise", "http_error"}

\* A variant of ensure_session that initializes whether or not the client
\* holds a session id.
ensure_session_always(m, resp) ==
    IF resp.status = "error"
    THEN [mcp |-> [m EXCEPT !.posted = Append(@, "initialize")],
          raised |-> Some("HTTPError")]
    ELSE [mcp |-> [m EXCEPT !.session_id = resp.header,
                            !.posted = @ \o <<"initialize",
                                              "notifications/initialized">>],
          raised |-> None]

\* MCPClient.ensure_session on client m, the server answering the
\* initialize request with resp: [mcp, raised].
ensure_session(m, resp) ==
    IF TruthyStr(m.session_id) THEN [mcp |-> m, raised |-> None]
    ELSE IF resp.status = "error"
    THEN [mcp |-> [m EXCEPT !.posted = Append(@, "initialize")],
          raised |-> Some("HTTPError")]
    ELSE [mcp |-> [m EXCEPT !.session_id = resp.header,
                            !.posted = @ \o <<"initialize",
                                              "notifications/initialized">>],
          raised |-> None]

\* MCPClient.call_tool from the ensured session e on: [mcp, raised].
Posted(e, answer) ==
    IF e.raised # None THEN e
    ELSE [mcp |-> [e.mcp EXCEPT !.posted = Append(@, "tools/call")],
          raised |-> CASE answer = "http_error" -> Some("HTTPError")
                       [] answer = "raise" -> Some("RuntimeError")
                       [] OTHER -> None]

\* MCPClient.call_tool: [mcp, raised].
call_tool(m, resp, answer) == Posted(ensure_session(m, resp), answer)

\* The client after a call that ended as `ended`, the call recorded.
After(op, resp, ended) ==
    [ended.mcp EXCEPT
        !.calls = @ + 1,
        !.last = Some([op |-> op, before |-> mcp.session_id,
                       posted_before |-> Len(mcp.posted),
                       response |-> resp, raised |-> ended.raised])]

EnsureSession(resp) ==
    mcp' = After("ensure_session", resp, ensure_session(mcp, resp))

CallTool(resp, answer) ==
    mcp' = After("call_tool", resp, call_tool(mcp, resp, answer))

NextClient ==
    /\ mcp.calls < MaxOps
    /\ \E resp \in InitResponses :
          \/ EnsureSession(resp)
          \/ \E answer \in ToolResponses : CallTool(resp, answer)
    /\ UNCHANGED <<session, pending, history, llm_available, turn, pc,
                   user_message, tool_events, handlers, resolutions,
                   loop_start, step, llm_calls, raw, content, outcome,
                   defaulted, resolved, matched, _CHAT_SESSIONS, chats, probes>>

SpecClient == Init /\ [][NextClient]_vars

\* ---------------------------------------------------------------------
\* server.run_report: POST /api/reports/run
\* ---------------------------------------------------------------------

\* int(s) of a JSON string: Some(n), or None where int raises ValueError.
int(s) ==
    CASE s = "0" -> Some(0)
      [] s = "5" -> Some(5)
      [] s = "10" -> Some(10)
      [] s = "999" -> Some(999)
      [] OTHER -> None

\* `int(raw) if raw not in (None, "") else 0`.
IntOrZero(value) ==
    IF value = None \/ value = Some("") THEN Some(0) ELSE int(value[1])

\* `int(payload.get("gw", 0))`.
IntOfGw(value) == IF value = None THEN Some(0) ELSE int(value[1])

\* How a call ends: it returns a dict or raises.
Returns(d) == [raised |-> None, returned |-> Some(d)]
Raising(exc) == [raised |-> Some(exc), returned |-> None]
ErrorDict(msg) == [error |-> Some(msg), ok |-> FALSE, paths |-> None]
OkDict(paths) == [error |-> None, ok |-> TRUE, paths |-> Some(paths)]

\* server._current_gw: Some(gameweek), or None where the tool call raises.
_current_gw(answer) ==
    CASE answer = "ok" -> Some(25)
      [] answer = "empty" -> Some(0)
      [] OTHER -> None

\* server._resolve_entry_id for a non-empty name: Some(entry id), or None
\* where the league_entries call raises.
_resolve_entry_id(answer) ==
    CASE answer = "ok" -> Some(200)
      [] answer = "empty" -> Some(0)
      [] OTHER -> None

\* The try block of run_report: generate the report of the type and save it.
Generate(report_type, entry_id, gw, answer) ==
    IF report_type \notin {Some("waivers"), Some("league_summary"),
                           Some("trades"), Some("starting_xi")}
    THEN Returns(ErrorDict(<<"unknown", "report", "type">>))
    ELSE IF report_type \in {Some("waivers"), Some("starting_xi")} /\ entry_id = 0
    THEN Returns(ErrorDict(<<"entry_id", "or", "entry_name", "is", "required",
                             "for", report_type[1]>>))
    ELSE IF answer = "raise"
    THEN Returns(ErrorDict(<<RaiseMsg>>))
    ELSE Returns(OkDict([report |-> report_type[1], gw |-> gw]))

\* run_report from the gw conversion on.
FromGw(payload, entry_id, be) ==
    IF IntOfGw(payload.gw) = None THEN Raising("ValueError")
    ELSE IF IntOfGw(payload.gw)[1] # 0
    THEN Generate(payload.type, entry_id, IntOfGw(payload.gw)[1], be.report)
    ELSE IF _current_gw(be.current) = None THEN Raising("RuntimeError")
    ELSE Generate(payload.type, entry_id,
                  IF payload.type = Some("waivers")
                  THEN _current_gw(be.current)[1] + 1
                  ELSE _current_gw(be.current)[1],
                  be.report)

\* server.run_report on a payload, the backend answering as be.
run_report(payload, be) ==
    IF IntOrZero(payload.league_id) = None \/ IntOrZero(payload.entry_id) = None
    THEN Raising("ValueError")
    ELSE IF IntOrZero(payload.league_id)[1] = 0
    THEN Returns(ErrorDict(<<"league_id", "is", "required">>))
    ELSE IF IntOrZero(payload.entry_id)[1] = 0 /\ TruthyStr(payload.entry_name)
    THEN IF _resolve_entry_id(be.entries) = None THEN Raising("RuntimeError")
         ELSE FromGw(payload, _resolve_entry_id(be.entries)[1], be)
    ELSE FromGw(payload, IntOrZero(payload.entry_id)[1], be)

Payloads ==
    [type : {None, Some("waivers"), Some("league_summary"), Some("trades"),
             Some("unknown_type")},
     league_id : {None, Some(""), Some("0"), Some("999"), Some("abc")},
     entry_id : {None, Some("5"), Some("not-a-number")},
     entry_name : {None, Some("Glock Tua")},
     gw : {None, Some("0"), Some("10"), Some("current")}]

ReportBackends ==
    [entries : {"ok", "raise"}, current : BackendOutcomes, report : {"ok", "raise"}]

RunReport(payload, be) ==
    /\ reported = None
    /\ reported' = Some([payload |-> payload, be |-> be,
                         result |-> run_report(payload, be)])
    /\ UNCHANGED <<session, pending, history, llm_available, turn, pc,
                   user_message, tool_events, handlers, resolutions,
                   loop_start, step, llm_calls, raw, content, outcome,
                   defaulted, resolved, matched, mcp, _CHAT_SESSIONS, chats,
                   cache, summarized, extracted, looked>>

NextReport == \E payload \in Payloads, be \in ReportBackends : RunReport(payload, be)

SpecReport == Init /\ [][NextReport]_vars

\* ---------------------------------------------------------------------
\* server: the cache refresh, at startup, on schedule and on request
\* ---------------------------------------------------------------------
MaxRefreshes == 3

\* The sequence without its i-th element.
Without(seq, i) == SubSeq(seq, 1, i - 1) \o SubSeq(seq, i + 1, Len(seq))

\* _start_cache_scheduler: the daily job is added when refresh_daily is set
\* and no scheduler exists.
_start_cache_scheduler(c, refresh_daily) ==
    IF ~refresh_daily \/ c.scheduler THEN c ELSE [c EXCEPT !.scheduler = TRUE]

\* _lifespan up to its yield: the scheduler, then the startup refresh on a
\* thread of its own when refresh_on_start is set.
Startup(refresh_daily, refresh_on_start) ==
    /\ cache.lifespan = "none"
    /\ cache' = [_start_cache_scheduler(cache, refresh_daily) EXCEPT
                    !.lifespan = "up",
                    !.executing = IF refresh_on_start
                                  THEN Append(@, "startup") ELSE @]

\* The scheduler's job comes due: run_cache_refresh starts on one of the
\* scheduler's threads, unless the job's previous run is still executing
\* (the scheduler runs one instance of a job at a time).
Scheduled ==
    /\ cache.scheduler
    /\ cache.requests < MaxRefreshes
    /\ cache' = [cache EXCEPT
                    !.requests = @ + 1,
                    !.executing = IF \E i \in 1..Len(@) : @[i] = "scheduled"
                                  THEN @ ELSE Append(@, "scheduled")]

\* trigger_refresh: refused while _REFRESH_STATUS is "running", otherwise
\* the state becomes "running" and a refresh starts on a thread of its own.
trigger_refresh(c) ==
    IF c.state = "running"
    THEN [c EXCEPT !.last = Some([before |-> c.state, ok |-> FALSE,
                                  started |-> 0])]
    ELSE [c EXCEPT !.state = "running",
                   !.executing = Append(@, "manual"),
                   !.last = Some([before |-> c.state, ok |-> TRUE,
                                  started |-> 1])]

Trigger ==
    /\ cache.lifespan = "up"
    /\ cache.requests < MaxRefreshes
    /\ cache' = [trigger_refresh(cache) EXCEPT !.requests = @ + 1]

\* run_cache_refresh returns: the subprocess ended, whatever its result.
\* A requested refresh sets _REFRESH_STATUS back to idle.
Finished(i) ==
    /\ i \in 1..Len(cache.executing)
    /\ cache' = [cache EXCEPT
                    !.executing = Without(@, i),
                    !.state = IF cache.executing[i] = "manual" THEN "idle" ELSE @]

\* _lifespan after its yield: the scheduler is shut down.
Shutdown ==
    /\ cache.lifespan = "up"
    /\ cache' = [cache EXCEPT !.lifespan = "down", !.scheduler = FALSE]

NextRefresh ==
    /\ \/ \E refresh_daily \in BOOLEAN, refresh_on_start \in BOOLEAN :
             Startup(refresh_daily, refresh_on_start)
       \/ Scheduled
       \/ Trigger
       \/ \E i \in 1..MaxRefreshes + 1 : Finished(i)
       \/ Shutdown
    /\ UNCHANGED <<session, pending, history, llm_available, turn, pc,
                   user_message, tool_events, handlers, resolutions,
                   loop_start, step, llm_calls, raw, content, outcome,
                   defaulted, resolved, matched, mcp, _CHAT_SESSIONS, chats,
                   reported, summarized, extracted, looked>>

SpecRefresh == Init /\ [][NextRefresh]_vars

\* ---------------------------------------------------------------------
\* Conversations about the user's own team
\* ---------------------------------------------------------------------
MyTeamUtterances ==
    {<<"show", "my", "team">>, <<"my", "roster", "gw", "2">>,
     <<"show", "my", "team", "Big", "Guns">>,
     <<"waiver", "recs", "for", "Glock", "Tua">>, <<"standings">>}

NextMyTeam ==
    \E msg \in MyTeamUtterances, context \in TeamContexts,
       be \in [1..MaxCalls -> BackendOutcomes] : Run(msg, context, be)

SpecMyTeam == Init /\ [][NextMyTeam]_vars

\* ---------------------------------------------------------------------
\* Agent._handle_matchup_summary once both teams are resolved and the
\* league summary is fetched
\* ---------------------------------------------------------------------
MaxEntries == 2

\* `by_id.get(id)` of `{e.get("entry_id"): e for e in entries}`: the last of
\* the entries with this id, or None.
ById(entries, id) ==
    IF \E i \in 1..Len(entries) : entries[i].entry_id = id
    THEN Some(entries[CHOOSE i \in 1..Len(entries) :
                        /\ entries[i].entry_id = id
                        /\ \A j \in (i + 1)..Len(entries) : entries[j].entry_id # id])
    ELSE None

NotFound == [kind |-> "Matchup not found for those teams in that GW.",
             rows |-> <<>>]
Rendered(entry_a, entry_b) == [kind |-> "render_matchup_md", rows |-> <<entry_a, entry_b>>]

\* A variant of Matchup that looks for the opponent in the first team's
\* row only.
Matchup_first_row_only(entries, entry_a_id, entry_b_id) ==
    IF ById(entries, entry_a_id) = None \/ ById(entries, entry_b_id) = None
    THEN NotFound
    ELSE IF ById(entries, entry_a_id)[1].opponent_entry_id = Some(entry_b_id)
    THEN Rendered(ById(entries, entry_a_id)[1], ById(entries, entry_b_id)[1])
    ELSE NotFound

\* The reply of _handle_matchup_summary for the summary's entries and the
\* two resolved teams.
Matchup(entries, entry_a_id, entry_b_id) ==
    IF ById(entries, entry_a_id) = None \/ ById(entries, entry_b_id) = None
    THEN NotFound
    ELSE IF ById(entries, entry_a_id)[1].opponent_entry_id = Some(entry_b_id)
    THEN Rendered(ById(entries, entry_a_id)[1], ById(entries, entry_b_id)[1])
    ELSE IF ById(entries, entry_b_id)[1].opponent_entry_id = Some(entry_a_id)
    THEN Rendered(ById(entries, entry_b_id)[1], ById(entries, entry_a_id)[1])
    ELSE NotFound

EntryIds == {100, 200, 300}
ResolvedIds == {100, 200}

SummaryEntries ==
    SeqsUpTo([entry_id : EntryIds,
              opponent_entry_id : {None} \cup {Some(id) : id \in EntryIds}],
             MaxEntries)

SummarizeMatchup(entries, entry_a_id, entry_b_id) ==
    /\ summarized = None
    /\ summarized' = Some([entries |-> entries, entry_a_id |-> entry_a_id,
                           entry_b_id |-> entry_b_id,
                           reply |-> Matchup(entries, entry_a_id, entry_b_id)])
    /\ UNCHANGED <<session, pending, history, llm_available, turn, pc,
                   user_message, tool_events, handlers, resolutions,
                   loop_start, step, llm_calls, raw, content, outcome,
                   defaulted, resolved, matched, mcp, _CHAT_SESSIONS, chats,
                   reported, cache, extracted, looked>>

NextMatchup ==
    \E entries \in SummaryEntries, entry_a_id \in ResolvedIds, entry_b_id \in ResolvedIds :
        SummarizeMatchup(entries, entry_a_id, entry_b_id)

SpecMatchup == Init /\ [][NextMatchup]_vars

\* ---------------------------------------------------------------------
\* Agent._extract_param on its own
\* ---------------------------------------------------------------------
MaxTokens == 3

ParamNames == {"league_id", "gw", "horizon", "entry_id", "nonexistent"}

ParamWords ==
    {"league", "entry", "id", "gw", "gameweek", "horizon",
     "2", "123", "55555", "286192"}

ParamTexts == SeqsUpTo(ParamWords, MaxTokens)

ExtractParam(param, text) ==
    /\ extracted = None
    /\ extracted' = Some([param |-> param, text |-> text,
                          result |-> _extract_param(param, text)])
    /\ UNCHANGED <<session, pending, history, llm_available, turn, pc,
                   user_message, tool_events, handlers, resolutions,
                   loop_start, step, llm_calls, raw, content, outcome,
                   defaulted, resolved, matched, mcp, _CHAT_SESSIONS, chats,
                   reported, cache, summarized, looked>>

NextExtract == \E param \in ParamNames, text \in ParamTexts : ExtractParam(param, text)

SpecExtract == Init /\ [][NextExtract]_vars

\* ---------------------------------------------------------------------
\* Agent._looks_like on its own
\* ---------------------------------------------------------------------
MaxLook == 3

LookIntents == {"streak", "win_list", "draft_picks", "nonexistent"}

LookWords == {"streak", "win", "week", "draft", "picks", "a", "row"}

LookTexts == SeqsUpTo(LookWords, MaxLook)

LooksLike(intent, text) ==
    /\ looked = None
    /\ looked' = Some([intent |-> intent, text |-> text,
                       result |-> _looks_like(intent, text)])
    /\ UNCHANGED <<session, pending, history, llm_available, turn, pc,
                   user_message, tool_events, handlers, resolutions,
                   loop_start, step, llm_calls, raw, content, outcome,
                   defaulted, resolved, matched, mcp, _CHAT_SESSIONS, chats,
                   reported, cache, summarized, extracted>>

NextLook == \E intent \in LookIntents, text \in LookTexts : LooksLike(intent, text)

SpecLook == Init /\ [][NextLook]_vars

\* ---------------------------------------------------------------------
\* Conversations in which the client names the user's team
\* ---------------------------------------------------------------------
IdentityUtterances ==
    {<<"zzz">>, <<"waiver", "recs">>, <<"waiver", "recs", "for", "Big", "Guns">>}

IdentityContexts ==
    {<<>>, [entry_name |-> Some(<<"Glock", "Tua">>)],
     [entry_id |-> Some(300), entry_name |-> Some(<<"Big", "Guns">>)]}

NextIdentity ==
    \/ \E msg \in IdentityUtterances, context \in IdentityContexts,
          be \in [1..MaxCalls -> {"ok", "raise"}] : Run(msg, context, be)
    \/ \E output \in ErrorOutputs, backend \in {"ok", "raise"} : LLMStep(output, backend)
    \/ LLMExhausted

SpecIdentity == Init /\ [][NextIdentity]_vars

(***************************************************************************)
(* Conversations that name the intents checked late in the dispatch order. *)
(***************************************************************************)
ShadowUtterances ==
    {<<"strength", "of", "schedule">>, <<"schedule", "difficulty">>,
     <<"strength", "of", "schedule", "next", "5", "gws">>,
     <<"waivers", "summary">>, <<"trades">>, <<"ownership">>,
     <<"lineup", "efficiency">>}

NextShadow ==
    \E msg \in ShadowUtterances, context \in TeamContexts,
       be \in [1..MaxCalls -> BackendOutcomes] : Run(msg, context, be)

SpecShadow == Init /\ [][NextShadow]_vars

(***************************************************************************)
(* Properties of the pending disambiguation (checked under SpecDialogue).  *)
(***************************************************************************)
\* The step is a call of run().
NewTurn == turn' = turn + 1

\* msg names candidate k of the list: by its 1-based number, by its
\* normalised name, or by holding that name as whole words.
Names(msg, candidates, k) ==
    LET m == strip(_normalize_text(msg))
        c == strip(_normalize_text(candidates[k]))
    IN  \/ Len(m) = 1 /\ IsDigitItem(m[1]) /\ IntOf(m[1]) = k
        \/ c = m
        \/ c # <<>> /\ PaddedIn(c, m)

MatchesNone(msg, candidates) ==
    \A k \in 1..Len(candidates) : ~Names(msg, candidates, k)

\* The team that carries a candidate name, and the handler of an intent.
EntryIdOf(entry_name) ==
    Teams[CHOOSE k \in 1..Len(Teams) : Teams[k].entry_name = entry_name].entry_id
HandlerOf(intent) ==
    CHOOSE h \in DOMAIN HandlerTable : HandlerTable[h].intent = intent

\* The turn's first backend call fetched the league's teams, and name is the
\* normalised name or short name of one of them.
LookupFound(events, name) ==
    /\ Len(events) >= 2
    /\ events[1].type = "tool_call" /\ events[1].name = "league_entries"
    /\ events[2].type = "tool_result"
    /\ events[2].payload.isdict
    /\ \E k \in 1..Len(events[2].payload.teams) :
          LET t == events[2].payload.teams[k]
          IN  strip(_normalize_text(name)) \in
                  {strip(_normalize_text(t.entry_name)),
                   strip(_normalize_text(t.short_name))}

Prompt(candidates) ==
    Some(Reply("I found multiple matching teams", _format_candidates(candidates)))
Reprompt(candidates) ==
    Some(Reply("Which team do you mean?", _format_candidates(candidates)))

\* A message one of the six team-scoped handlers takes and whose team
\* reference fits several teams of the league equally.
AmbiguousQuery(msg) ==
    /\ \E intent \in {"manager_season", "current_roster", "waiver", "streak",
                      "win_list", "schedule"} : _looks_like(intent, lower(msg))
    /\ resolve_team_in(Teams, msg).multiple # None

\* C1: when a request is pending and the message selects one of its
\* candidates, and the league lookup of the turn succeeds, the turn clears
\* the pending fields, re-invokes the recorded intent's handler on the
\* recorded utterance with the chosen team, and the handler's tool call
\* carries the chosen team's entry_id.
C1_SelectionCallsChosenTeam ==
    [][ ( /\ NewTurn
          /\ HasPending(pending)
          /\ user_message' # <<>>
          /\ _match_candidate(user_message', Val(pending.candidates)) # None
          /\ LookupFound(tool_events',
                 Val(_match_candidate(user_message', Val(pending.candidates)))) )
        => LET chosen == Val(_match_candidate(user_message', Val(pending.candidates)))
               h == HandlerOf(Val(pending.intent))
           IN  /\ pending' = NoPending
               /\ handlers' = << [handler |-> h, text |-> Val(pending.text),
                                  entry_id_override |-> Some(EntryIdOf(chosen))] >>
               /\ \E i \in 1..Len(tool_events') :
                     /\ tool_events'[i].type = "tool_call"
                     /\ tool_events'[i].name = HandlerTable[h].tool
                     /\ Get(tool_events'[i].payload, "entry_id") = Some(EntryIdOf(chosen))
      ]_vars

\* C2: the pending slot holds either nothing or one whole request, and it is
\* set only in a turn whose handler's Team Resolver call returned more than
\* one team: it then records that handler's intent, the league the resolver
\* was called with, the resolver's candidate names in order and the turn's
\* utterance, and the reply is the numbered prompt of exactly those names.
C2_PendingSetOnlyOnAmbiguity ==
    /\ [](\/ pending = NoPending
          \/ /\ HasPending(pending)
             /\ pending.text # None)
    /\ [][ (pending' # pending /\ pending' # NoPending)
           => /\ NewTurn
              /\ Len(handlers') = 1
              /\ Len(resolutions') = 1
              /\ LET h == handlers'[1]
                     r == resolutions'[1]
                 IN  /\ h.handler \in DOMAIN HandlerTable
                     /\ h.text = user_message'
                     /\ r.text = user_message'
                     /\ r.res.multiple # None
                     /\ Len(Val(r.res.multiple)) > 1
                     /\ tool_events'[1] =
                            Event("tool_call", "league_entries",
                                  [league_id |-> Some(r.league_id)])
                     /\ pending' = [intent |-> Some(HandlerTable[h.handler].intent),
                                    candidates |-> r.res.multiple,
                                    league_id |-> Some(r.league_id),
                                    text |-> Some(user_message')]
                     /\ content' = Prompt(Val(r.res.multiple))
                     /\ outcome' = "fast"
         ]_vars

\* A request was just recorded for the other league: two candidates, prompted.
C2_PendingRecorded ==
    /\ outcome = "fast"
    /\ HasPending(pending)
    /\ pending.league_id = Some(55555)
    /\ content = Prompt(<< <<"Boot", "Gang">>, <<"Big", "Guns">> >>)

\* C3: when a request is pending and a non-empty message matches none of its
\* candidates, the reply is the re-prompt listing the same candidates, the
\* pending record is unchanged, and the turn invokes no handler, calls no
\* tool and does not reach the LLM.
C3_NoMatchReprompts ==
    [][ ( /\ NewTurn
          /\ HasPending(pending)
          /\ user_message' # <<>>
          /\ MatchesNone(user_message', Val(pending.candidates)) )
        => /\ content' = Reprompt(Val(pending.candidates))
           /\ pending' = pending
           /\ handlers' = <<>>
           /\ tool_events' = <<>>
           /\ llm_calls' = 0
           /\ pc' = "idle"
           /\ outcome' = "fast"
      ]_vars

\* A turn answered a pending request with the re-prompt.
C3_Reprompted ==
    /\ outcome = "fast"
    /\ HasPending(pending)
    /\ content = Reprompt(Val(pending.candidates))
    /\ user_message = <<"3">>
    /\ tool_events = <<>>

\* C4, as stated: every turn that starts with a pending request ends with
\* the pending slot empty, whether or not its message selected a team.
C4_ClearedByAnyTurn ==
    [][ (NewTurn /\ HasPending(pending)) => pending' = NoPending ]_vars

\* C4, amended: a turn that starts with a pending request empties the slot
\* when its message names a candidate and the league lookup finds that name,
\* and otherwise (an empty message, no candidate named, a failed lookup)
\* leaves the pending record as it was.
C4_ClearedOnlyOnResolvedSelection ==
    [][ (NewTurn /\ HasPending(pending))
        => IF /\ user_message' # <<>>
              /\ \E k \in 1..Len(Val(pending.candidates)) :
                    /\ Names(user_message', Val(pending.candidates), k)
                    /\ LookupFound(tool_events', Val(pending.candidates)[k])
           THEN pending' = NoPending
           ELSE pending' = pending
      ]_vars

\* A selection just emptied the slot and re-invoked the handler.
C4_SelectionConsumed ==
    /\ pending = NoPending
    /\ Len(handlers) = 1
    /\ handlers[1].entry_id_override # None
    /\ user_message = <<"Big", "Guns", "please">>

C6_PromptAlwaysPends ==
    [][ ( /\ NewTurn
          /\ Len(resolutions') = 1
          /\ resolutions'[1].res.multiple # None
          /\ content' = Prompt(Val(resolutions'[1].res.multiple)) )
        => /\ HasPending(pending')
           /\ pending'.candidates = resolutions'[1].res.multiple
           /\ pending'.text = Some(user_message')
      ]_vars

(***************************************************************************)
(* Properties of the LLM loop (checked under SpecLLM).                     *)
(***************************************************************************)
\* The turn went into the LLM loop.
InLoop == outcome \notin {"none", "fast", "llm_unavailable"}

\* final answer, raw-text degrade, tool-error string, short-circuit
\* rendering, max-steps message.
DefinedOutcomes ==
    {"final", "raw", "no_action", "tool_error", "short_circuit", "max_steps"}

\* The tool invocations the loop has made.
LoopCalls ==
    Cardinality({i \in (loop_start + 1)..Len(tool_events) :
                    tool_events[i].type = "tool_call"})

MaxStepsMessage == Some(Reply("Max steps reached.", <<>>))

\* The events from position `from` on are exactly n pairs of a tool_call and
\* the tool_result of the same tool.
ResultPairs(events, from, n) ==
    /\ Len(events) = from + 2 * n
    /\ \A k \in 1..n :
          /\ events[from + 2 * k - 1].type = "tool_call"
          /\ events[from + 2 * k].type = "tool_result"
          /\ events[from + 2 * k].name = events[from + 2 * k - 1].name

\* An output that is no action envelope: no JSON, JSON that is no object, or
\* an object without an action or with arguments that are no object.
Unusable(text) ==
    LET p == try_parse_json(text)
    IN  \/ ~p.ok
        \/ p.data.type # "object"
        \/ p.data.action = None
        \/ p.data.arguments # None /\ Val(p.data.arguments).type # "object"

\* C7: a turn makes at most max_steps llm.generate calls and at most
\* max_steps tool invocations in the loop, and a turn that went into the loop
\* ends in one of the defined outcomes.
C7_BoundedAndDefined ==
    /\ llm_calls <= max_steps
    /\ LoopCalls <= max_steps
    /\ (pc = "idle" /\ InLoop) => outcome \in DefinedOutcomes

\* C8, as stated: the turn ends by step exhaustion exactly when it returns
\* "Max steps reached.", and its tool_events then are exactly max_steps
\* tool_call/tool_result pairs.
C8_ExactlyMaxStepsPairs ==
    /\ (pc = "idle" /\ step = max_steps)
          => content = MaxStepsMessage /\ ResultPairs(tool_events, 0, max_steps)
    /\ content = MaxStepsMessage => step = max_steps

\* C8, amended: once max_steps iterations each made a tool call that returned
\* and did not short-circuit, the turn can only end with "Max steps
\* reached."; run() produces that message on no other path, and the events
\* the loop appended are then exactly max_steps tool_call/tool_result pairs,
\* after whatever the fast path logged before it gave the turn to the LLM.
C8_MaxStepsPairsAfterFastPath ==
    /\ pc = "llm" => step <= max_steps
    /\ (pc = "idle" /\ step = max_steps)
          => /\ outcome = "max_steps"
             /\ content = MaxStepsMessage
             /\ ResultPairs(tool_events, loop_start, max_steps)
             /\ llm_calls = max_steps
    /\ (outcome = "max_steps" \/ content = MaxStepsMessage)
          => pc = "idle" /\ step = max_steps

\* The budget ran out in a turn whose fast path had already logged a call.
C8_ExhaustedAfterFastPathCall ==
    /\ outcome = "max_steps"
    /\ loop_start = 2
    /\ Len(tool_events) = 2 + 2 * max_steps

\* What a returning turn appends to the history: the user's message unless it
\* is empty, then the reply unless it is blank.
Recorded(msg, reply) ==
    (IF msg # <<>> THEN << [role |-> "user", content |-> Text(msg)] >> ELSE <<>>)
    \o (IF ~Blank(reply) THEN << [role |-> "assistant", content |-> reply] >> ELSE <<>>)

\* C9: a turn whose last model output is no action envelope raises nothing,
\* returns that output verbatim, and is recorded in the history.
C9_UnusableOutputDegrades ==
    (pc = "idle" /\ InLoop /\ llm_calls > 0 /\ Unusable(raw))
    => /\ outcome # "exception"
       /\ content = Some(Raw(raw))
       /\ LET tail == Recorded(user_message, Raw(raw))
          IN  /\ Len(history) >= Len(tail)
              /\ SubSeq(history, Len(history) - Len(tail) + 1, Len(history)) = tail

\* C10: a step of the loop that logs a tool_error logs it right after the
\* tool_call of the same tool, as the last event, and ends the turn with the
\* error string; the turn is over, so nothing is retried and neither a tool
\* nor the LLM is called again in it.
C10_ToolErrorEndsTurn ==
    /\ [](outcome = "tool_error" =>
            /\ pc = "idle"
            /\ tool_events[Len(tool_events)].type = "tool_error")
    /\ [][ ( /\ pc = "llm"
             /\ \E i \in (Len(tool_events) + 1)..Len(tool_events') :
                   tool_events'[i].type = "tool_error" )
           => /\ Len(tool_events') = Len(tool_events) + 2
              /\ SubSeq(tool_events', 1, Len(tool_events)) = tool_events
              /\ LET call == tool_events'[Len(tool_events) + 1]
                     error == tool_events'[Len(tool_events) + 2]
                 IN  /\ call.type = "tool_call"
                     /\ error = Event("tool_error", call.name, RaiseMsg)
              /\ pc' = "idle"
              /\ outcome' = "tool_error"
              /\ content' = Some(Reply("Tool error:", <<RaiseMsg>>))
              /\ history' = Record(history, user_message, Val(content'))
              /\ llm_calls' = llm_calls + 1
              /\ step' = step
         ]_vars
    /\ [][ (pc = "idle" /\ outcome = "tool_error") => NewTurn ]_vars

\* The second tool call of a loop raised and ended the turn.
C10_SecondCallRaised ==
    /\ outcome = "tool_error"
    /\ llm_calls = 2
    /\ LoopCalls = 2
    /\ tool_events[Len(tool_events) - 2].type = "tool_result"

(***************************************************************************)
(* Properties of the conversation history.                                 *)
(***************************************************************************)
\* The latest call of run() returned a reply (it did not raise).
Returned == pc = "idle" /\ turn > 0 /\ content # None

\* The last n entries of a history (all of it when it holds fewer).
LastOf(h, n) == SubSeq(h, IF Len(h) > n THEN Len(h) - n + 1 ELSE 1, Len(h))

Entry(role, c) == [role |-> role, content |-> c]

\* What a returned turn leaves in the history: the utterance unless it is
\* empty, then the reply with the whitespace at its ends removed, unless
\* nothing is left of it.
Kept(msg, reply) ==
    (IF msg # <<>> THEN <<Entry("user", Text(msg))>> ELSE <<>>)
    \o (IF ~Blank(Stripped(reply))
        THEN <<Entry("assistant", Stripped(reply))>> ELSE <<>>)

\* C11 as worded: after a call of run() that returned, with a non-empty
\* utterance and a non-empty reply, the last two entries of the history are
\* (user, utterance) and (assistant, reply), the reply as it was returned.
C11_LastTwoAreUtteranceAndReply ==
    (Returned /\ user_message # <<>> /\ ~Blank(Val(content)))
    => LastOf(history, 2) = <<Entry("user", Text(user_message)),
                              Entry("assistant", Val(content))>>

\* C11: every call of run() that returns has appended the utterance (unless
\* empty) and then the reply stripped of the whitespace at its ends (unless
\* nothing is left of it), in that order and at the end of the history, which
\* otherwise only lost entries at its front; a turn changes the history at no
\* other moment.
C11_UtteranceThenStrippedReply ==
    /\ [](Returned =>
            LET kept == Kept(user_message, Val(content))
            IN  /\ Len(history) >= Len(kept)
                /\ LastOf(history, Len(kept)) = kept)
    /\ [][ IF pc' = "idle" /\ content' # None
           THEN LET kept == Kept(user_message', Val(content'))
                    all == history \o kept
                IN  history' = LastOf(all, 2 * history_limit)
           ELSE history' = history \/ (pc' = "idle" /\ content' = None)
         ]_vars

\* The model's reply ended with a blank, the history holds it without.
C11_PaddedReplyRecorded ==
    /\ Returned /\ outcome = "raw"
    /\ raw = "Boot Gang is top. "
    /\ user_message # <<>>
    /\ content = Some(Raw("Boot Gang is top. "))
    /\ history[Len(history)] = Entry("assistant", Raw("Boot Gang is top."))

\* C12: the history never holds more than 2 * history_limit entries and never
\* an empty or whitespace-only one; a returned turn leaves in it the last
\* 2 * history_limit of the entries it held followed by the turn's non-blank
\* entries, in their order, so that the oldest entries are the ones dropped.
C12_NewestNonBlankWithinLimit ==
    /\ [](/\ Len(history) <= 2 * history_limit
          /\ \A i \in 1..Len(history) : ~Blank(Stripped(history[i].content)))
    /\ [][ (pc' = "idle" /\ content' # None)
           => LET all == history \o Kept(user_message', Val(content'))
              IN  /\ Len(history') = IF Len(all) > 2 * history_limit
                                    THEN 2 * history_limit ELSE Len(all)
                  /\ \A i \in 1..Len(history') :
                        history'[i] = all[Len(all) - Len(history') + i]
         ]_vars

\* The history is full and starts with the reply to a request whose own
\* entry has been dropped already.
C12_OldestEvicted ==
    /\ Len(history) = 2 * history_limit
    /\ history[1] = Entry("assistant", Reply("standings", <<>>))
    /\ history[2].role = "user"

(***************************************************************************)
(* The order of the stages of a turn (checked under SpecDialogue).         *)
(***************************************************************************)
\* C13: in a call of run() the session is updated before anything is
\* resolved (the league the team resolver is asked about is the one the
\* session holds after the turn); a message that meets a pending request is
\* answered by the pending resolver alone, by a re-prompt or by the pending
\* request's handler run with the chosen team, and is not classified; the
\* turn goes to the LLM only with no reply from the fast path; llm.generate
\* is called only inside the loop, and never in a turn the fast path answered.
C13_StagesInOrder ==
    /\ [][ NewTurn =>
           /\ (resolutions' # <<>> /\ ~HasPending(pending))
              => session'.league_id = Some(resolutions'[1].league_id)
           /\ (HasPending(pending) /\ user_message' # <<>>)
              => /\ outcome' = "fast"
                 /\ resolutions' = <<>>
                 /\ IF handlers' = <<>>
                    THEN /\ pending' = pending
                         /\ Val(content').kind \in
                               {"Which team do you mean?",
                                "I couldn't find that team in the league."}
                    ELSE /\ Len(handlers') = 1
                         /\ handlers'[1].handler = HandlerOf(Val(pending.intent))
                         /\ handlers'[1].entry_id_override # None
           /\ pc' = "llm" <=> content' = None
           /\ pc' = "llm" <=> outcome' = "running"
           /\ llm_calls' = 0
         ]_vars
    /\ [][ (llm_calls' # llm_calls /\ ~NewTurn)
           => /\ pc = "llm" /\ outcome = "running" /\ content = None
              /\ llm_calls' = llm_calls + 1
         ]_vars
    /\ [](outcome = "fast" => (llm_calls = 0 /\ raw = "" /\ pc = "idle"))

\* A turn met a pending request with a message that is a query of its own,
\* and the fast path answered it without the LLM.
C13_PendingAnsweredBeforeClassification ==
    /\ turn = 2
    /\ outcome = "fast"
    /\ user_message = <<"standings">>
    /\ HasPending(pending)
    /\ Val(content).kind = "Which team do you mean?"
    /\ llm_calls = 0

(***************************************************************************)
(* The team a team-scoped handler asks about (checked under SpecTeams).    *)
(***************************************************************************)
\* C14: in a turn dispatched to a team-scoped handler, the handler's tool
\* call carries the entry id of the team the utterance names, whatever the
\* session default; the call carries a session default (the one the session
\* held or the one the caller's context brought) only when the utterance
\* refers to no team.
C14_NamedTeamBeatsDefault ==
    [][ ( /\ NewTurn
          /\ Len(handlers') = 1
          /\ handlers'[1].handler \in DOMAIN HandlerTable
          /\ handlers'[1].entry_id_override = None )
        => LET named == resolve_team_in(Teams, user_message')
               tool == HandlerTable[handlers'[1].handler].tool
           IN  \A i \in 1..Len(tool_events') :
                  (tool_events'[i].type = "tool_call" /\ tool_events'[i].name = tool)
                  => IF named.entry_id # None
                     THEN Get(tool_events'[i].payload, "entry_id") = named.entry_id
                     ELSE /\ ~Several(named.multiple)
                          /\ Get(tool_events'[i].payload, "entry_id") \in
                                {session.entry_id} \cup
                                {Get(c, "entry_id") : c \in TeamContexts}
      ]_vars

(***************************************************************************)
(* Tool failures on the fast path (checked under SpecDialogue).            *)
(***************************************************************************)
\* The replies by which a handler says that its data is not to be had.
UnavailableReplies ==
    {HandlerTable[h].unavailable : h \in DOMAIN HandlerTable}
    \cup {"Draft history is unavailable right now.",
          "Lineup efficiency data is unavailable.",
          "data is unavailable.",
          "League summary is unavailable right now.",
          "Transaction analysis is unavailable right now.",
          "Fixture data is unavailable right now.",
          "Player form data is unavailable right now."}

\* The backend raised on a handler's own tool call in the events.
HandlerCallRaised(events) ==
    \E i \in 1..Len(events) :
        events[i].type = "tool_error" /\ events[i].name # "league_entries"

\* C15: a call of run() in which the backend raised on a handler's tool call
\* returns (the exception does not leave run()), the fast path answers it,
\* and the reply is the handler's unavailability message, not a rendering of
\* the failed call.
C15_RaisedCallRepliesUnavailable ==
    [][ (NewTurn /\ HandlerCallRaised(tool_events'))
        => /\ outcome' = "fast"
           /\ content' # None
           /\ Val(content').kind \in UnavailableReplies
      ]_vars

(***************************************************************************)
(* What a failing backend call shows the user (checked under SpecErrors).  *)
(***************************************************************************)
\* The backend raised in the turn with the message that names a file: the
\* event log holds the message, as it was or as _sanitize_error rewrote it.
RaisedWithPath(events) ==
    \E i \in 1..Len(events) :
        /\ events[i].type = "tool_error"
        /\ events[i].payload \in {PathRaiseMsg, _sanitize_error(PathRaiseMsg)}

\* The content holds the file's path: the only contents made of a backend's
\* message are the "Tool error: <message>" ones.
LeaksPath(reply) ==
    \/ reply.kind = PathRaiseMsg
    \/ reply.kind = "Tool error:" /\ reply.detail = <<PathRaiseMsg>>

\* C16: the content of a turn in which the backend raised with a message that
\* names a file holds nothing of the file's path, on the fast path and in
\* the LLM loop.
C16_NoPathInContent ==
    (content # None /\ RaisedWithPath(tool_events)) => ~LeaksPath(Val(content))

(***************************************************************************)
(* Properties of argument defaulting (checked under SpecDefaults).         *)
(***************************************************************************)
\* The tools whose entry_id and entry_name _apply_defaults fills in.
TeamTools ==
    {"waiver_recommendations", "manager_schedule", "manager_streak",
     "current_roster", "manager_season", "head_to_head"}

\* An optional text that Python takes as false: null or the empty string.
FalsyName(o) == o = None \/ o = Some(<<>>)

\* C17 as worded: an explicit league_id of the input is in the output with
\* the same value, for every tool and session, and no member the input has
\* comes out with another value.
C17_SuppliedValuesKept ==
    defaulted # None =>
        LET d == Val(defaulted)
        IN  /\ "league_id" \in DOMAIN d.args
               => /\ "league_id" \in DOMAIN d.out
                  /\ d.out.league_id = d.args.league_id
            /\ \A k \in DOMAIN d.args \cap DOMAIN d.out : d.out[k] = d.args[k]

\* C17: an explicit league_id is never overwritten: it is in the output with
\* the same value, null or 0 included, for every tool but player_gw_stats,
\* whose allow-list drops it.  A member of the input that is in the output
\* has the input's value unless it is an entry_id or entry_name of a team
\* tool that the input gave as null, 0 or "" and the session has a default
\* for, an entry_name of manager_schedule given as a name object or given
\* empty beside first/last parts (the joined name replaces it, or the
\* session default when no name is left), or an include_raw string of
\* fixture_difficulty that reads as a truth value.
C17_LeagueKeptDefaultsFillFalsy ==
    defaulted # None =>
        LET d == Val(defaulted)
            joined == JoinNames(Get(d.args, "first"), Get(d.args, "last"))
            parts == IF IsNameDict(Get(d.args, "entry_name"))
                     THEN JoinNames(Some(d.args.entry_name[1][2]),
                                    Some(d.args.entry_name[1][3]))
                     ELSE <<>>
        IN  /\ "league_id" \in DOMAIN d.args
               => IF d.name = "player_gw_stats"
                  THEN "league_id" \notin DOMAIN d.out
                  ELSE /\ "league_id" \in DOMAIN d.out
                       /\ d.out.league_id = d.args.league_id
            /\ \A k \in DOMAIN d.args \cap DOMAIN d.out :
                  \/ d.out[k] = d.args[k]
                  \/ /\ k = "entry_id" /\ d.name \in TeamTools
                     /\ ~Truthy(d.args.entry_id)
                     /\ Truthy(session.entry_id)
                     /\ d.out.entry_id = session.entry_id
                  \/ /\ k = "entry_name" /\ d.name \in TeamTools
                     /\ \/ FalsyName(d.args.entry_name)
                        \/ d.name = "manager_schedule"
                           /\ IsNameDict(d.args.entry_name) /\ parts = <<>>
                     /\ ~FalsyName(session.entry_name)
                     /\ d.out.entry_name = session.entry_name
                  \/ /\ k = "entry_name" /\ d.name = "manager_schedule"
                     /\ \/ /\ IsNameDict(d.args.entry_name)
                           /\ parts # <<>>
                           /\ d.out.entry_name = Some(parts)
                        \/ /\ FalsyName(d.args.entry_name)
                           /\ joined # <<>>
                           /\ d.out.entry_name = Some(joined)
                  \/ /\ k = "include_raw" /\ d.name = "fixture_difficulty"
                     /\ d.args.include_raw \in {Some("Yes "), Some("yes"),
                                                Some("true"), Some("1")}
                     /\ d.out.include_raw = Some("True")

\* An explicit league_id met a session that holds another league and a team.
C17_ExplicitLeagueMetSession ==
    /\ defaulted # None
    /\ session.league_id = Some(55555)
    /\ session.entry_id = Some(200)
    /\ Val(defaulted).name = "waiver_recommendations"
    /\ DOMAIN Val(defaulted).args = {"league_id"}
    /\ Val(defaulted).args.league_id = Some(777)
    /\ Val(defaulted).out.league_id = Some(777)
    /\ Val(defaulted).out.entry_id = Some(200)

\* C18: _apply_defaults applied to its own result, for the same tool and in
\* the same session, returns that result.
C18_Idempotent ==
    defaulted # None => Val(defaulted).again = Val(defaulted).out

\* A name given as first and last was joined, and defaulting the result
\* again changed nothing.
C18_SplitNameJoinedOnce ==
    /\ defaulted # None
    /\ Val(defaulted).name = "manager_schedule"
    /\ DOMAIN Val(defaulted).args = {"first", "last"}
    /\ Val(defaulted).args.first = Some("Boot")
    /\ Val(defaulted).args.last = Some("Gang")
    /\ Val(defaulted).out.entry_name = Some(<<"Boot", "Gang">>)
    /\ DOMAIN Val(defaulted).out \cap {"first", "last"} = {}
    /\ Val(defaulted).again = Val(defaulted).out

\* The tools that work on a league: all the tools _apply_defaults knows but
\* player_gw_stats.  The tools that take the entry_id of a team.
LeagueScoped == ToolNames \ {"player_gw_stats", "player_search"}
TeamScopedTools == TeamTools \ {"head_to_head"}

\* C19: a league-scoped tool whose input has no league_id leaves with the
\* session's league, or with the configured one when the session has none; a
\* team-scoped tool whose input has no entry_id leaves with the session's
\* entry_id when the session has one.
C19_IdentifyingDefaultsInjected ==
    defaulted # None =>
        LET d == Val(defaulted)
        IN  /\ (d.name \in LeagueScoped /\ "league_id" \notin DOMAIN d.args)
               => /\ "league_id" \in DOMAIN d.out
                  /\ d.out.league_id =
                        IF Truthy(session.league_id) THEN session.league_id
                        ELSE Some(SETTINGS.league_id)
            /\ (d.name \in TeamScopedTools /\ "entry_id" \notin DOMAIN d.args
                /\ Truthy(session.entry_id))
               => /\ "entry_id" \in DOMAIN d.out
                  /\ d.out.entry_id = session.entry_id

\* C20 as worded: every member of the output that the input has not holds a
\* value that is not null.
C20_NoNewNull ==
    defaulted # None =>
        \A k \in DOMAIN Val(defaulted).out \ DOMAIN Val(defaulted).args :
            Val(defaulted).out[k] # None

\* The member that a tool takes under another name, and the tool's own name
\* for it.
Aliases ==
    {<<"fixtures", "gw", "as_of_gw">>, <<"fixture_difficulty", "gw", "as_of_gw">>,
     <<"fixture_difficulty", "target_gw", "next_gw">>,
     <<"player_form", "gw", "as_of_gw">>, <<"player_gw_stats", "gw", "start_gw">>}

\* C20: no default is written as null: a member of the output that the input
\* has not is not null, unless it is the tool's own name for a member the
\* input gave as null under its alias (the null is the caller's); and a
\* field the session has not set is not taken from the session.
C20_NoNullDefault ==
    defaulted # None =>
        LET d == Val(defaulted)
        IN  /\ \A k \in DOMAIN d.out \ DOMAIN d.args :
                  \/ d.out[k] # None
                  \/ \E a \in Aliases :
                        /\ a[1] = d.name /\ a[3] = k
                        /\ a[2] \in DOMAIN d.args /\ d.args[a[2]] = None
            /\ \A k \in {"entry_id", "entry_name"} :
                  (session[k] = None /\ k \notin DOMAIN d.args
                   /\ (k = "entry_name" => d.name # "manager_schedule"))
                  => k \notin DOMAIN d.out

\* A team tool was defaulted in a session that has a league but no team.
C20_UnsetTeamOmitted ==
    /\ defaulted # None
    /\ session.entry_id = None /\ session.entry_name = None
    /\ session.league_id = Some(55555)
    /\ Val(defaulted).name = "manager_streak"
    /\ DOMAIN Val(defaulted).args = {}
    /\ DOMAIN Val(defaulted).out = {"league_id"}
    /\ Val(defaulted).out.league_id = Some(55555)

(***************************************************************************)
(* Properties of the allow-lists (checked under SpecDefaults).             *)
(***************************************************************************)

\* The tools _apply_defaults filters, each with the keys its block allows.
AllowLists ==
    [fixtures |-> {"league_id", "as_of_gw", "horizon"},
     fixture_difficulty |-> {"league_id", "as_of_gw", "next_gw", "horizon",
                             "limit", "include_raw"},
     manager_schedule |-> {"league_id", "entry_id", "entry_name", "gw", "horizon"},
     manager_streak |-> {"league_id", "entry_id", "entry_name", "start_gw", "end_gw"},
     league_entries |-> {"league_id"},
     player_form |-> {"league_id", "as_of_gw", "horizon"},
     current_roster |-> {"league_id", "entry_id", "entry_name", "gw"},
     draft_picks |-> {"league_id", "entry_id", "entry_name"},
     manager_season |-> {"league_id", "entry_id", "entry_name"},
     transaction_analysis |-> {"league_id", "gw"},
     player_gw_stats |-> {"element_id", "player_name", "start_gw", "end_gw"},
     head_to_head |-> {"league_id", "entry_id_a", "entry_name_a",
                       "entry_id_b", "entry_name_b"}]

\* C21: for every tool that has an allow-list, the arguments _apply_defaults
\* produces have only keys of that list, whatever keys the input had; so the
\* arguments of manager_schedule are among league_id, entry_id, entry_name,
\* gw and horizon.
C21_OnlyAllowedKeys ==
    defaulted # None =>
        /\ Val(defaulted).name \in DOMAIN AllowLists =>
               /\ DOMAIN Val(defaulted).out \subseteq AllowLists[Val(defaulted).name]
               /\ DOMAIN Val(defaulted).again \subseteq AllowLists[Val(defaulted).name]
        /\ Val(defaulted).name = "manager_schedule" =>
               DOMAIN Val(defaulted).out \subseteq
                   {"league_id", "entry_id", "entry_name", "gw", "horizon"}

\* manager_schedule was given a key off its list beside one on it, in a
\* session with a team, and left with the listed keys only.
C21_ForeignKeyDropped ==
    /\ defaulted # None
    /\ Val(defaulted).name = "manager_schedule"
    /\ DOMAIN Val(defaulted).args = {"include_raw", "gw"}
    /\ session.entry_id # None
    /\ DOMAIN Val(defaulted).out = {"league_id", "entry_id", "gw", "horizon"}

(***************************************************************************)
(* The schedule handler's horizon (checked under SpecSchedule).            *)
(***************************************************************************)
\* The turn that ended was dispatched to the schedule handler with the
\* user's utterance.
ScheduleAsked ==
    /\ pc = "idle" /\ turn > 0
    /\ Len(handlers) = 1
    /\ handlers[1].handler = "_handle_schedule"
    /\ handlers[1].text = user_message

\* C22: a schedule request whose utterance names no gameweek calls
\* manager_schedule with horizon 5, or the horizon the utterance states, and
\* without gw, whatever the session holds; the horizon is clamped to 1 only
\* when the utterance gives a gameweek.
C22_HorizonFromUtterance ==
    ScheduleAsked =>
        \A i \in 1..Len(tool_events) :
            (tool_events[i].type = "tool_call"
             /\ tool_events[i].name = "manager_schedule")
            => IF _extract_gw(user_message) = None
               THEN /\ "gw" \notin DOMAIN tool_events[i].payload
                    /\ Get(tool_events[i].payload, "horizon") =
                           Or(_extract_horizon(user_message), Some(5))
               ELSE /\ Get(tool_events[i].payload, "gw") = _extract_gw(user_message)
                    /\ Get(tool_events[i].payload, "horizon") = Some(1)

(***************************************************************************)
(* Who won a gameweek (checked under SpecSchedule).                        *)
(***************************************************************************)
\* C23: the utterance "who won gw27" is dispatched to the league recap (the
\* tool called is league_summary) and not to the handler that lists a
\* team's wins, although it holds "won" and "gw".
C23_WhoWonIsLeagueRecap ==
    (pc = "idle" /\ turn > 0 /\ user_message = <<"who", "won", "gw27">>)
    => /\ \A i \in 1..Len(handlers) : handlers[i].handler # "_handle_wins_list"
       /\ \E i \in 1..Len(tool_events) :
             /\ tool_events[i].type = "tool_call"
             /\ tool_events[i].name = "league_summary"

(***************************************************************************)
(* Greetings (checked under SpecGreeting).                                 *)
(***************************************************************************)
GreetingReply == Some(Reply("Hey! I'm your FPL Draft assistant.", <<>>))

\* C24: a turn whose utterance the greeting detector accepts is answered
\* with the fixed greeting reply, without a tool call and without a change
\* to the session or to the pending request, in every conversation state
\* (a pending request included) and whatever context or numbers come with
\* the greeting.
C24_GreetingTouchesNothing ==
    [][ (NewTurn /\ _is_greeting(lower(user_message')))
        => /\ content' = GreetingReply
           /\ tool_events' = <<>>
           /\ session' = session
           /\ pending' = pending
      ]_vars

(***************************************************************************)
(* Properties of the team resolver (checked under SpecResolver).           *)
(***************************************************************************)
\* Every token of the normalised name c is a token of the message.
AllTokensIn(c, msg) ==
    /\ split(c) # <<>>
    /\ \A i \in 1..Len(split(c)) : split(c)[i] \in Range(split(msg))

\* The tier at which team t matches the normalised message: 4 by equality
\* with a name of the team, 3 by its full name as a padded substring, 2 by
\* its short name as a padded substring, 1 by all tokens of a name, 0 not
\* at all.
TierOf(t, msg) ==
    LET full == strip(_normalize_text(t.entry_name))
        short == strip(_normalize_text(t.short_name))
    IN  IF (full # <<>> /\ full = msg) \/ (short # <<>> /\ short = msg) THEN 4
        ELSE IF full # <<>> /\ PaddedIn(full, msg) THEN 3
        ELSE IF short # <<>> /\ PaddedIn(short, msg) THEN 2
        ELSE IF AllTokensIn(full, msg) \/ AllTokensIn(short, msg) THEN 1
        ELSE 0

\* The highest tier at which a team of the league matches.
TopTier(msg) ==
    CHOOSE k \in 0..4 :
        /\ \E i \in 1..Len(Teams) : TierOf(Teams[i], msg) = k
        /\ \A i \in 1..Len(Teams) : TierOf(Teams[i], msg) <= k

\* C25: the tiers of the resolver are strictly ordered (equality above a
\* padded substring, a full name's above a short name's, a padded substring
\* above all tokens present): the team returned, and every team listed as a
\* candidate, matches at the highest tier at which any team matches.
C25_OnlyTopTierReturned ==
    resolved # None =>
        LET r == Val(resolved).res
            msg == strip(_normalize_text(Val(resolved).text))
        IN  /\ r.entry_id # None =>
                   \A i \in 1..Len(Teams) :
                       Teams[i].entry_id = Val(r.entry_id)
                       => TierOf(Teams[i], msg) = TopTier(msg)
            /\ Several(r.multiple) =>
                   \A n \in 1..Len(Val(r.multiple)) :
                       \E i \in 1..Len(Teams) :
                           /\ Teams[i].entry_name = Val(r.multiple)[n]
                           /\ TierOf(Teams[i], msg) = TopTier(msg)

\* The entries of the scored list that share its top score, and the length
\* of the longest name among them.
TopScored(msg) ==
    LET scored == Scored(Teams, msg)
    IN  SelectSeq(scored, LAMBDA s :
            \A j \in 1..Len(scored) : scored[j].key[1] <= s.key[1])
LongestTop(msg) ==
    {TopScored(msg)[i].t.entry_id : i \in
        {i \in 1..Len(TopScored(msg)) :
            \A j \in 1..Len(TopScored(msg)) :
                TopScored(msg)[j].key[3] <= TopScored(msg)[i].key[3]}}

\* C26: when several matches share the top score, the team whose matched
\* name is longest is returned as the single result; candidates are listed
\* only when more than one team is still tied after that.
C26_LongestNameBreaksTie ==
    resolved # None =>
        LET r == Val(resolved).res
            msg == strip(_normalize_text(Val(resolved).text))
        IN  (msg # <<>> /\ Scored(Teams, msg) # <<>>) =>
                IF Cardinality(LongestTop(msg)) = 1
                THEN /\ r.entry_id # None
                     /\ Val(r.entry_id) \in LongestTop(msg)
                ELSE Several(r.multiple)

(***************************************************************************)
(* Properties of candidate matching (checked under SpecMatcher).           *)
(***************************************************************************)
\* The normalised message is a numeral that is a position in the list.
IsPosition(msg, candidates) ==
    /\ Len(msg) = 1 /\ IsDigitItem(msg[1])
    /\ 1 <= IntOf(msg[1]) /\ IntOf(msg[1]) <= Len(candidates)

\* The positions of the candidates whose normalised name equals the message.
EqualTo(msg, candidates) ==
    {i \in 1..Len(candidates) : strip(_normalize_text(candidates[i])) = msg}

\* " name " occurs in " msg ": for a name without characters that is two
\* spaces in a row, which the message has where an item of it is empty.
OccursPadded(name, msg) ==
    IF name = <<>> THEN \E i \in 1..Len(msg) : msg[i] = ""
    ELSE PaddedIn(name, msg)

\* The positions of the candidates whose normalised name occurs in the
\* message as a padded substring, and of those among them whose normalised
\* name is not empty.
OccurringIn(msg, candidates) ==
    {i \in 1..Len(candidates) :
        OccursPadded(strip(_normalize_text(candidates[i])), msg)}
NonEmptyOccurringIn(msg, candidates) ==
    {i \in OccurringIn(msg, candidates) :
        strip(_normalize_text(candidates[i])) # <<>>}

\* The candidate at the least position of a non-empty set of positions.
FirstAt(positions, candidates) ==
    Some(candidates[CHOOSE i \in positions : \A j \in positions : i <= j])

\* The choice the three rules make, the third taking the positions in sub.
Choice(msg, candidates, sub) ==
    IF IsPosition(msg, candidates) THEN Some(candidates[IntOf(msg[1])])
    ELSE IF EqualTo(msg, candidates) # {}
    THEN FirstAt(EqualTo(msg, candidates), candidates)
    ELSE IF sub # {} THEN FirstAt(sub, candidates)
    ELSE None

\* C27 as stated: a numeral that is a position selects the candidate at
\* that position, whatever the names are; otherwise the first candidate
\* whose normalised name equals the normalised message; otherwise the first
\* whose normalised name occurs in it as a padded substring; otherwise none.
C27_ThreeRulesInPriority ==
    matched # None =>
        LET msg == strip(_normalize_text(Val(matched).text))
        IN  Val(matched).res =
                Choice(msg, Val(matched).candidates,
                       OccurringIn(msg, Val(matched).candidates))

\* C27: the same three rules in the same priority, the third rule taking
\* only candidates whose normalised name is not empty.
C27_ThreeRulesNonEmptySubstring ==
    matched # None =>
        LET msg == strip(_normalize_text(Val(matched).text))
        IN  Val(matched).res =
                Choice(msg, Val(matched).candidates,
                       NonEmptyOccurringIn(msg, Val(matched).candidates))

\* The message "2" was matched against a list whose first name is "2" and
\* selected the second candidate.
C27_NumeralBeatsEqualName ==
    /\ matched # None
    /\ Val(matched).text = <<"2">>
    /\ Val(matched).candidates = <<<<"2">>, <<"Boot", "Gang">>>>
    /\ Val(matched).res = Some(<<"Boot", "Gang">>)

(***************************************************************************)
(* Turns of one conversation (checked under SpecChat).                     *)
(***************************************************************************)
\* C28: turns of one conversation are serialized: at most one Agent.run is
\* in flight per session id at a time, and two requests that carry the same
\* new session id never have two different Agents for it.
C28_TurnsSerialized ==
    \A r1, r2 \in Requests :
        (r1 # r2 /\ chats[r1].session_id = chats[r2].session_id
         /\ chats[r1].session_id # <<>>)
        => /\ ~(chats[r1].pc = "running" /\ chats[r2].pc = "running")
           /\ (chats[r1].agent # None /\ chats[r2].agent # None)
              => chats[r1].agent = chats[r2].agent

(***************************************************************************)
(* Properties of the MCP client's session (checked under SpecClient).      *)
(***************************************************************************)
\* C29: ensure_session raises RuntimeError when the initialize response
\* carries no Mcp-Session-Id header, rather than storing an absent id; and
\* after an ensure_session that returns normally session_id is a non-empty
\* id the server returned.
C29_MissingIdRaises ==
    (mcp.last # None /\ Val(mcp.last).op = "ensure_session") =>
        /\ ( /\ ~TruthyStr(Val(mcp.last).before)
             /\ Val(mcp.last).response = [status |-> "ok", header |-> None] )
           => Val(mcp.last).raised = Some("RuntimeError")
        /\ Val(mcp.last).raised = None
           => /\ TruthyStr(mcp.session_id)
              /\ mcp.session_id \in {r.header : r \in InitResponses}

\* C30: once the client holds a session id, ensure_session is a no-op: in
\* any sequence of ensure_session and call_tool calls no initialize request
\* is posted after a session id has been obtained, and the stored session
\* id never changes.
C30_SessionKept ==
    [][ TruthyStr(mcp.session_id)
        => /\ mcp'.session_id = mcp.session_id
           /\ \A i \in (Len(mcp.posted) + 1)..Len(mcp'.posted) :
                 mcp'.posted[i] # "initialize"
      ]_vars

\* ensure_session was called on a client that held a session id, after the
\* one initialize request that obtained it, and posted nothing.
C30_EnsuredTwice ==
    /\ mcp.last # None
    /\ Val(mcp.last).op = "ensure_session"
    /\ TruthyStr(Val(mcp.last).before)
    /\ Val(mcp.last).response.header # mcp.session_id
    /\ Val(mcp.last).response.status = "ok"
    /\ mcp.posted = <<"initialize", "notifications/initialized">>

(***************************************************************************)
(* Properties of run_report (checked under SpecReport).                    *)
(***************************************************************************)
\* The message is an error message that mentions the word.
Mentions(result, word) ==
    /\ result.returned # None
    /\ result.returned[1].error # None
    /\ \E i \in 1..Len(result.returned[1].error[1]) :
          result.returned[1].error[1][i] = word

\* The raw value is given and is not an integer.
NonInteger(value) ==
    value # None /\ value # Some("") /\ int(value[1]) = None

\* C31: run_report never raises on malformed input: a missing league_id
\* returns the error "league_id is required", a non-integer league_id or
\* entry_id returns an error that mentions "integer", an unknown report type
\* returns an error dict, and a non-integer gw is treated as 0.
C31_MalformedInputReported ==
    reported # None =>
        LET p == reported[1].payload
            result == reported[1].result
        IN  /\ (NonInteger(p.league_id) \/ NonInteger(p.entry_id)
                \/ NonInteger(p.gw)) => result.raised = None
            /\ (p.league_id \in {None, Some("")} /\ ~NonInteger(p.entry_id))
                  => result = Returns(ErrorDict(<<"league_id", "is", "required">>))
            /\ (NonInteger(p.league_id) \/ NonInteger(p.entry_id))
                  => Mentions(result, "integer")
            /\ (p.type = Some("unknown_type") /\ result.raised = None)
                  => result.returned[1].error # None
            /\ (NonInteger(p.gw) /\ ~NonInteger(p.league_id)
                /\ ~NonInteger(p.entry_id))
                  => result = run_report([p EXCEPT !.gw = None], reported[1].be)

(***************************************************************************)
(* Properties of the cache refresh (checked under SpecRefresh).            *)
(***************************************************************************)
\* C32: at most one cache refresh runs at a time: a trigger received while
\* the refresh state is "running" returns ok=false and starts nothing, a
\* trigger received while idle starts exactly one refresh and returns
\* ok=true, and no interleaving of the startup refresh, the scheduled
\* refresh and the triggers has two refreshes executing at once.
C32_OneRefreshAtATime ==
    /\ Len(cache.executing) <= 1
    /\ cache.last # None =>
          IF cache.last[1].before = "running"
          THEN ~cache.last[1].ok /\ cache.last[1].started = 0
          ELSE cache.last[1].ok /\ cache.last[1].started = 1

(***************************************************************************)
(* Properties of the default team (checked under SpecMyTeam).              *)
(***************************************************************************)
\* The turn called the tool for entry id.
CalledFor(tool, id) ==
    \E i \in 1..Len(tool_events) :
        /\ tool_events[i].type = "tool_call"
        /\ tool_events[i].name = tool
        /\ tool_events[i].payload.entry_id = Some(id)

\* C33: the default team id is the session's entry_id when one is set and
\* otherwise the configured SETTINGS.entry_id, so "show my team" in a session
\* without an entry_id calls its tool for the configured team rather than
\* asking which team is meant.
C33_MyTeamFallsBackToConfigured ==
    (pc = "idle" /\ turn = 1 /\ user_message = <<"show", "my", "team">>)
        => \/ CalledFor("current_roster", 200)
           \/ /\ session.entry_id \in {None, Some(SETTINGS.entry_id)}
              /\ CalledFor("current_roster", SETTINGS.entry_id)

(***************************************************************************)
(* Properties of the matchup summary (checked under SpecMatchup).          *)
(***************************************************************************)
\* The summary has a row for the team.
HasRow(m, id) == ById(m.entries, id) # None

\* The team's row names the other team as its opponent.
NamesOpponent(m, id, other) ==
    HasRow(m, id) /\ ById(m.entries, id)[1].opponent_entry_id = Some(other)

\* C34 as stated: a matchup is rendered for two resolved teams A and B only
\* when A's opponent is B and B's opponent is A; whenever the links do not
\* cross-reference each other, or either entry is missing, the reply is
\* "Matchup not found" and nothing is rendered.
C34_RenderedOnlyWhenBothLinked ==
    summarized # None =>
        LET m == summarized[1]
        IN  IF /\ NamesOpponent(m, m.entry_a_id, m.entry_b_id)
               /\ NamesOpponent(m, m.entry_b_id, m.entry_a_id)
            THEN m.reply.kind = "render_matchup_md"
            ELSE m.reply = NotFound

\* C34, amended: a matchup is rendered exactly when both teams have a row in
\* the summary and at least one of the two rows names the other team as its
\* opponent, the row that does being rendered first; otherwise the reply is
\* "Matchup not found" and nothing is rendered.
C34_RenderedWhenEitherLinked ==
    summarized # None =>
        LET m == summarized[1]
        IN  IF /\ HasRow(m, m.entry_a_id) /\ HasRow(m, m.entry_b_id)
               /\ \/ NamesOpponent(m, m.entry_a_id, m.entry_b_id)
                  \/ NamesOpponent(m, m.entry_b_id, m.entry_a_id)
            THEN /\ m.reply.kind = "render_matchup_md"
                 /\ {m.reply.rows[1].entry_id, m.reply.rows[2].entry_id}
                        = {m.entry_a_id, m.entry_b_id}
                 /\ m.reply.rows[1].opponent_entry_id
                        = Some(m.reply.rows[2].entry_id)
            ELSE m.reply = NotFound

\* A matchup rendered from the second team's row alone.
C34_RenderedFromOneLink ==
    /\ summarized # None
    /\ summarized[1].reply.kind = "render_matchup_md"
    /\ summarized[1].entry_a_id # summarized[1].entry_b_id
    /\ ~NamesOpponent(summarized[1], summarized[1].entry_a_id, summarized[1].entry_b_id)
    /\ NamesOpponent(summarized[1], summarized[1].entry_b_id, summarized[1].entry_a_id)

(***************************************************************************)
(* Properties of parameter extraction (checked under SpecExtract).         *)
(***************************************************************************)
\* The keywords that introduce each parameter's number in an utterance.
OwnKeywords ==
    [league_id |-> {"league"}, gw |-> {"gw", "gameweek", "week"},
     horizon |-> {"horizon"}, entry_id |-> {"entry"}]

\* The integers that follow one of the keywords in the text, "id" allowed
\* between a league or entry keyword and its number.
Following(kws, text) ==
    {NumWord(text[i + 1])[1].val :
        i \in {j \in 1..(Len(text) - 1) :
                 /\ NumWord(text[j + 1]) # <<>>
                 /\ \/ text[j] \in kws
                    \/ /\ text[j] = "id" /\ j > 1 /\ text[j - 1] \in kws
                       /\ kws \cap {"league", "entry"} # {}}}

\* The integer has as many digits as the parameter takes.
Accepts(param, n) ==
    /\ n >= Pow10(_PARAM_PATTERNS[param].lo - 1)
    /\ n < Pow10(_PARAM_PATTERNS[param].hi)

\* C35: for each parameter of league_id, gw, horizon and entry_id, extract
\* returns the integer that follows the parameter's own keyword and nothing
\* when the text has no such keyword and number; a number introduced by
\* another parameter's keyword is never returned, and an unknown parameter
\* yields nothing.
C35_OwnKeywordsInteger ==
    extracted # None =>
        LET e == extracted[1]
        IN  IF e.param \notin DOMAIN OwnKeywords THEN e.result = None
            ELSE IF Following(OwnKeywords[e.param], e.text) = {}
            THEN e.result = None
            ELSE /\ e.result # None =>
                        e.result[1] \in Following(OwnKeywords[e.param], e.text)
                 /\ (\E n \in Following(OwnKeywords[e.param], e.text) :
                        Accepts(e.param, n)) => e.result # None

(***************************************************************************)
(* Properties of the intent classifier (checked under SpecLook).           *)
(***************************************************************************)
\* One of the words occurs in the text.
HasWord(text, words) == \E i \in 1..Len(text) : text[i] \in words

\* "in a row" occurs in the text, be it in "win a row".
InARow(text) ==
    \E i \in 1..(Len(text) - 2) :
        text[i] \in {"in", "win"} /\ text[i + 1] = "a" /\ text[i + 2] = "row"

CallAndOutcome(log, i) ==
    /\ log[i].type = "tool_call"
    /\ log[i + 1].type \in {"tool_result", "tool_error"}
    /\ log[i + 1].name = log[i].name

\* The log is a sequence of calls, each followed by its outcome.
Paired(log) ==
    /\ Len(log) % 2 = 0
    /\ \A i \in 1..Len(log) : i % 2 = 1 => CallAndOutcome(log, i)

\* C37: in every turn's tool_events, on the fast path and in the LLM loop,
\* each tool_call is followed at once by exactly one tool_result or
\* tool_error of the same name, no result or error stands without its call,
\* and within the turn the log only grows.
C37_CallsPairedLogGrows ==
    /\ [](Paired(tool_events))
    /\ [][turn' = turn =>
            /\ Len(tool_events') >= Len(tool_events)
            /\ SubSeq(tool_events', 1, Len(tool_events)) = tool_events]_vars

\* A turn that made a call on the fast path and then a call in the LLM loop,
\* which raised.
C37_LoopCallRaisedAfterFastPathCall ==
    /\ pc = "idle"
    /\ loop_start = 2
    /\ Len(tool_events) = 4
    /\ tool_events[2].type = "tool_result"
    /\ tool_events[4].type = "tool_error"

\* The events the step adds to the log, a new turn starting a new log.
NewEvents ==
    IF turn' = turn
    THEN SubSeq(tool_events', Len(tool_events) + 1, Len(tool_events'))
    ELSE tool_events'

\* C38: the session's fields are written from a tool invocation only when it
\* succeeds: a step whose tool calls all raised, on the fast path or in the
\* LLM loop, leaves the session as it was (the utterances of SpecErrors
\* carry no parameter of their own, and its turns no context).
C38_RaisedCallLeavesSession ==
    [][(NewEvents # <<>>
        /\ \A i \in 1..Len(NewEvents) : NewEvents[i].type # "tool_result")
          => session' = session]_vars

(***************************************************************************)
(* Properties of the team's identity (checked under SpecIdentity).         *)
(***************************************************************************)
\* The league has a team of this id and this name.
Identifies(entry_id, entry_name) ==
    \E i \in 1..Len(Teams) :
        Teams[i].entry_id = entry_id /\ Teams[i].entry_name = entry_name

\* Where the object gives an entry id and an entry name, they are one team's.
OneTeam(o) ==
    (/\ Truthy(Get(o, "entry_id"))
     /\ OrText(Get(o, "entry_name"), None) # None)
        => Identifies(Val(Get(o, "entry_id")), Val(Get(o, "entry_name")))

\* C39: the team's identity stays consistent: whenever the session holds
\* both entry_id and entry_name they identify the same team, and a tool call
\* whose arguments carry both, defaults injected for the LLM path included,
\* carries a pair that identifies one team.
C39_IdAndNameOfOneTeam ==
    /\ OneTeam(session)
    /\ \A i \in 1..Len(tool_events) :
          tool_events[i].type = "tool_call" => OneTeam(tool_events[i].payload)


ToolCalled(tool) ==
    \E i \in 1..Len(tool_events) :
        tool_events[i].type = "tool_call" /\ tool_events[i].name = tool

HandedTo(handler) == handlers # <<>> /\ handlers[1].handler = handler

\* C40: no intent of the classifier table is shadowed by an intent checked
\* earlier in the dispatch order: the first message of a conversation that
\* contains "strength of schedule" results in a strength_of_schedule tool
\* call, and one containing "waivers" and "summary" reaches the transactions
\* handler.
C40_LateIntentsReachTheirHandler ==
    (pc = "idle" /\ turn = 1)
        => /\ KeywordIn(<<"strength", "of", "schedule">>, lower(user_message))
                => ToolCalled("strength_of_schedule")
           /\ (/\ KeywordIn(<<"waivers">>, lower(user_message))
               /\ KeywordIn(<<"summary">>, lower(user_message)))
                => HandedTo("transactions")

=============================================================================
